---- MODULE Spec2Model ----
(***************************************************************************)
(* CSV Agent Editor: the step applier and preview engine                   *)
(* (services/dataProcessor.ts) and the session controller (App) that owns  *)
(* the dataset, the step list, the undo history and the pending preview.   *)
(*                                                                         *)
(* JavaScript values are tagged records; a row object is the sequence of   *)
(* its own properties in insertion order; a TableData is a record of a     *)
(* headers array and a rows array.  Strings are TLA+ strings over the      *)
(* alphabet of Alphabet (numerals are unsigned decimal integers).          *)
(***************************************************************************)
EXTENDS Integers, Sequences, FiniteSets, TLC

(***************************************************************************)
(* Bounds of the model.                                                    *)
(***************************************************************************)
MaxRows == 2
MaxCommits == 2
MaxLoads == 2
MaxPending == 2
MaxFormats == 1

(***************************************************************************)
(* JavaScript values.                                                      *)
(***************************************************************************)
Null == [t |-> "null", n |-> 0, s |-> ""]
Undefined == [t |-> "undefined", n |-> 0, s |-> ""]
Num(n) == [t |-> "number", n |-> n, s |-> ""]
Str(s) == [t |-> "string", n |-> 0, s |-> s]
Bool(b) == [t |-> "boolean", n |-> IF b THEN 1 ELSE 0, s |-> ""]
NaN == [t |-> "number", n |-> -1, s |-> "NaN"]

IsNaN(v) == v = NaN

\* Code-unit order of the characters the model's strings are made of.
Alphabet == "0123456789XYxy|"

CharCode(c) == CHOOSE i \in 1..Len(Alphabet) : SubSeq(Alphabet, i, i) = c

CharAt(s, i) == SubSeq(s, i, i)

IsDigit(c) == c \in {"0", "1", "2", "3", "4", "5", "6", "7", "8", "9"}

DigitVal(c) == CharCode(c) - 1

RECURSIVE StrToNat(_)
StrToNat(s) ==
    IF Len(s) = 0 THEN 0
    ELSE 10 * StrToNat(SubSeq(s, 1, Len(s) - 1)) + DigitVal(CharAt(s, Len(s)))

IsNumeral(s) == Len(s) > 0 /\ \A i \in 1..Len(s) : IsDigit(CharAt(s, i))

\* Length of the longest prefix of s that consists of digits.
RECURSIVE DigitPrefixLen(_)
DigitPrefixLen(s) ==
    IF Len(s) = 0 \/ ~IsDigit(CharAt(s, 1)) THEN 0
    ELSE 1 + DigitPrefixLen(SubSeq(s, 2, Len(s)))

\* String(v)
String(v) ==
    CASE v.t = "string" -> v.s
      [] v.t = "number" -> IF IsNaN(v) THEN "NaN" ELSE ToString(v.n)
      [] v.t = "boolean" -> IF v.n = 1 THEN "true" ELSE "false"
      [] v.t = "null" -> "null"
      [] OTHER -> "undefined"

\* a hexadecimal literal: 0x or 0X and hexadecimal digits (of the alphabet's
\* characters the decimal digits are hexadecimal digits)
IsHexLiteral(s) ==
    /\ Len(s) >= 3
    /\ CharAt(s, 1) = "0"
    /\ CharAt(s, 2) \in {"x", "X"}
    /\ \A i \in 3..Len(s) : IsDigit(CharAt(s, i))

RECURSIVE HexToNat(_)
HexToNat(s) ==
    IF Len(s) = 0 THEN 0
    ELSE 16 * HexToNat(SubSeq(s, 1, Len(s) - 1)) + DigitVal(CharAt(s, Len(s)))

\* Number(v), the ToNumber conversion
ToNumber(v) ==
    CASE v.t = "number" -> v
      [] v.t = "string" -> IF v.s = "" THEN Num(0)
                           ELSE IF IsNumeral(v.s) THEN Num(StrToNat(v.s))
                           ELSE IF IsHexLiteral(v.s)
                                THEN Num(HexToNat(SubSeq(v.s, 3, Len(v.s))))
                           ELSE NaN
      [] v.t = "boolean" -> Num(v.n)
      [] v.t = "null" -> Num(0)
      [] OTHER -> NaN

\* parseFloat(v): the number a prefix of String(v) denotes
parseFloat(v) ==
    IF v.t = "number" THEN v
    ELSE LET str == String(v)
             k == DigitPrefixLen(str)
         IN IF k = 0 THEN NaN ELSE Num(StrToNat(SubSeq(str, 1, k)))

\* isFinite(v): every number of the model other than NaN is finite
isFinite(v) == ~IsNaN(ToNumber(v))

isNumeric(val) == ~IsNaN(parseFloat(val)) /\ isFinite(val)

RECURSIVE StrLess(_, _)
StrLess(x, y) ==
    IF Len(y) = 0 THEN FALSE
    ELSE IF Len(x) = 0 THEN TRUE
    ELSE IF CharAt(x, 1) = CharAt(y, 1)
         THEN StrLess(SubSeq(x, 2, Len(x)), SubSeq(y, 2, Len(y)))
         ELSE CharCode(CharAt(x, 1)) < CharCode(CharAt(y, 1))

\* x < y
JsLess(x, y) ==
    IF x.t = "string" /\ y.t = "string" THEN StrLess(x.s, y.s)
    ELSE LET nx == ToNumber(x)
             ny == ToNumber(y)
         IN IF IsNaN(nx) \/ IsNaN(ny) THEN FALSE ELSE nx.n < ny.n

\* x == y (loose equality)
JsLooseEq(x, y) ==
    IF x.t = y.t THEN (~IsNaN(x) /\ x = y)
    ELSE IF x.t \in {"null", "undefined"} \/ y.t \in {"null", "undefined"}
         THEN x.t \in {"null", "undefined"} /\ y.t \in {"null", "undefined"}
         ELSE LET nx == ToNumber(x)
                  ny == ToNumber(y)
              IN ~IsNaN(nx) /\ ~IsNaN(ny) /\ nx.n = ny.n

\* x <= y is !(y < x) unless an operand is NaN
JsLessEq(x, y) ==
    IF x.t = "string" /\ y.t = "string" THEN ~StrLess(y.s, x.s)
    ELSE LET nx == ToNumber(x)
             ny == ToNumber(y)
         IN IF IsNaN(nx) \/ IsNaN(ny) THEN FALSE ELSE nx.n <= ny.n

UpperCase == "AEFLRSTUXY"

LowerCase == "aeflrstuxy"

LowerChar(c) ==
    IF \E i \in 1..Len(UpperCase) : CharAt(UpperCase, i) = c
    THEN CharAt(LowerCase, CHOOSE i \in 1..Len(UpperCase) : CharAt(UpperCase, i) = c)
    ELSE c

RECURSIVE toLowerCase(_)
toLowerCase(s) ==
    IF Len(s) = 0 THEN ""
    ELSE LowerChar(CharAt(s, 1)) \o toLowerCase(SubSeq(s, 2, Len(s)))

includes(s, sub) ==
    \E i \in 0..(Len(s) - Len(sub)) : SubSeq(s, i + 1, i + Len(sub)) = sub

(***************************************************************************)
(* Row objects: own properties in insertion order.                         *)
(***************************************************************************)
HasKey(row, k) == \E i \in 1..Len(row) : row[i].k = k

\* row[k]
Get(row, k) ==
    IF HasKey(row, k)
    THEN row[CHOOSE i \in 1..Len(row) : row[i].k = k].v
    ELSE Undefined

\* row[k] = v
Set(row, k, v) ==
    IF HasKey(row, k)
    THEN [i \in 1..Len(row) |-> IF row[i].k = k THEN [k |-> k, v |-> v] ELSE row[i]]
    ELSE Append(row, [k |-> k, v |-> v])

\* delete row[k]
Delete(row, k) == SelectSeq(row, LAMBDA p : p.k # k)

Keys(row) == {row[i].k : i \in 1..Len(row)}

\* JSON.stringify(row): properties whose value is undefined are left out
JSONstringify(row) == SelectSeq(row, LAMBDA p : p.v # Undefined)

indexOf(arr, x) ==
    IF \E i \in 1..Len(arr) : arr[i] = x
    THEN CHOOSE i \in 1..Len(arr) : arr[i] = x /\ \A j \in 1..(i - 1) : arr[j] # x
    ELSE -1

Elements(arr) == {arr[i] : i \in 1..Len(arr)}

arrIncludes(arr, x) == \E i \in 1..Len(arr) : arr[i] = x

\* values.join(sep): null and undefined become the empty string
RECURSIVE join(_, _)
join(values, sep) ==
    IF Len(values) = 0 THEN ""
    ELSE LET h == Head(values)
             hs == IF h.t \in {"null", "undefined"} THEN "" ELSE String(h)
         IN IF Len(values) = 1 THEN hs ELSE hs \o sep \o join(Tail(values), sep)

(***************************************************************************)
(* Object identity.  A call works on two references, data (the argument)   *)
(* and newData (the clone); shared names the parts of the object graph the *)
(* two references have in common: "object" (the TableData object itself),  *)
(* "arrays" (the headers and rows arrays) and "rowObjects" (the row        *)
(* objects).  A write through newData reaches data when the written part   *)
(* is shared.                                                              *)
(***************************************************************************)
cloneDeep_identity(data) ==
    [data |-> data, newData |-> data, shared |-> {"object", "arrays", "rowObjects"}]

cloneDeep_headersOnly(data) ==
    [data |-> data, newData |-> [data EXCEPT !.rows = <<>>], shared |-> {}]

\* const newData = cloneDeep(data)
cloneDeep(data) == [data |-> data, newData |-> data, shared |-> {}]

\* newData.rows = rows
AssignRows(m, rows) ==
    [m EXCEPT !.newData.rows = rows,
              !.data.rows = IF "object" \in m.shared THEN rows ELSE @]

\* newData.rows.sort(...): the array is reordered in place
SortInPlace(m, rows) ==
    [m EXCEPT !.newData.rows = rows,
              !.data.rows = IF "arrays" \in m.shared THEN rows ELSE @]

\* newData.headers = headers
AssignHeaders(m, headers) ==
    [m EXCEPT !.newData.headers = headers,
              !.data.headers = IF "object" \in m.shared THEN headers ELSE @]

\* newData.headers[index] = name
SetHeaderAt(m, index, name) ==
    [m EXCEPT !.newData.headers[index] = name,
              !.data.headers = IF "arrays" \in m.shared
                               THEN [@ EXCEPT ![index] = name] ELSE @]

\* newData.rows.forEach(row => ...): every row object is changed in place;
\* f maps a row object to what the callback makes of it
ForEachRow(m, f) ==
    [m EXCEPT !.newData.rows = [i \in 1..Len(@) |-> f[@[i]]],
              !.data.rows = IF "rowObjects" \in m.shared
                            THEN [i \in 1..Len(@) |-> f[@[i]]] ELSE @]

(***************************************************************************)
(* applyStep                                                               *)
(***************************************************************************)
\* the callback of newData.rows.filter in the filter case
filterTest(row, column, condition, value) ==
    LET rowValue == Get(row, column)
        filterValue == IF isNumeric(value) THEN parseFloat(value) ELSE value
        comparableRowValue == IF isNumeric(rowValue) THEN parseFloat(rowValue) ELSE rowValue
    IN CASE condition = "equals" -> JsLooseEq(comparableRowValue, filterValue)
         [] condition = "not_equals" -> ~JsLooseEq(comparableRowValue, filterValue)
         [] condition = "gt" -> JsLess(filterValue, comparableRowValue)
         [] condition = "lt" -> JsLess(comparableRowValue, filterValue)
         [] condition = "gte" -> JsLessEq(filterValue, comparableRowValue)
         [] condition = "lte" -> JsLessEq(comparableRowValue, filterValue)
         [] condition = "contains" ->
                includes(toLowerCase(String(rowValue)), toLowerCase(String(value)))
         [] condition = "not_contains" ->
                ~includes(toLowerCase(String(rowValue)), toLowerCase(String(value)))
         [] OTHER -> TRUE

filterRows_dropFirstKept(rows, column, condition, value) ==
    LET kept == SelectSeq(rows, LAMBDA row : filterTest(row, column, condition, value))
    IN IF Len(kept) = 0 THEN kept ELSE Tail(kept)

filterRows_concat(rows, column, condition, value) ==
    rows \o SelectSeq(rows, LAMBDA row : filterTest(row, column, condition, value))

\* newData.rows.filter(row => ...) of the filter case
filterRows(rows, column, condition, value) ==
    SelectSeq(rows, LAMBDA row : filterTest(row, column, condition, value))

\* the comparator of the sort case, from column i on
RECURSIVE sortCompareFrom(_, _, _, _, _)
sortCompareFrom(a, b, columns, directions, i) ==
    IF i > Len(columns) THEN 0
    ELSE LET col == columns[i]
             dir == IF i <= Len(directions) /\ directions[i] = "desc" THEN -1 ELSE 1
             valA == Get(a, col)
             valB == Get(b, col)
         IN IF JsLess(valA, valB) THEN -1 * dir
            ELSE IF JsLess(valB, valA) THEN 1 * dir
            ELSE sortCompareFrom(a, b, columns, directions, i + 1)

sortCompare_ascending(a, b, columns, directions) == sortCompareFrom(a, b, columns, <<>>, 1)

sortCompare(a, b, columns, directions) == sortCompareFrom(a, b, columns, directions, 1)

\* Array.prototype.sort: a stable insertion sort; x goes behind every
\* element of the sorted prefix that does not compare greater than it.
\* cmp is the comparator as a function on pairs of elements.
RECURSIVE insertInto(_, _, _)
insertInto(sorted, x, cmp) ==
    IF Len(sorted) = 0 THEN <<x>>
    ELSE IF cmp[sorted[Len(sorted)], x] > 0
         THEN Append(insertInto(SubSeq(sorted, 1, Len(sorted) - 1), x, cmp), sorted[Len(sorted)])
         ELSE Append(sorted, x)

RECURSIVE sortFrom(_, _, _, _)
sortFrom(arr, i, sorted, cmp) ==
    IF i > Len(arr) THEN sorted
    ELSE sortFrom(arr, i + 1, insertInto(sorted, arr[i], cmp), cmp)

sort(arr, cmp) == sortFrom(arr, 1, <<>>, cmp)

\* const key = keys.map(k => row[k]).join('||')
dedupeKey(row, keys) == join([i \in 1..Len(keys) |-> Get(row, keys[i])], "||")

\* the dedupe filter with its seen set, from row i on
RECURSIVE dedupeFrom(_, _, _, _)
dedupeFrom(rows, keys, i, seen) ==
    IF i > Len(rows) THEN <<>>
    ELSE LET key == dedupeKey(rows[i], keys)
         IN IF key \in seen
            THEN dedupeFrom(rows, keys, i + 1, seen)
            ELSE <<rows[i]>> \o dedupeFrom(rows, keys, i + 1, seen \cup {key})

renameInRow_keepOld(row, old_name, new_name) ==
    Set(row, new_name, Get(row, old_name))

\* row[new_name] = row[old_name]; delete row[old_name]
renameInRow(row, old_name, new_name) ==
    Delete(Set(row, new_name, Get(row, old_name)), old_name)

fillInRow(row, fill_column, fill_value) ==
    IF Get(row, fill_column) = Null \/ Get(row, fill_column) = Undefined
       \/ Get(row, fill_column) = Str("")
    THEN Set(row, fill_column,
             IF isNumeric(fill_value) THEN parseFloat(fill_value) ELSE fill_value)
    ELSE row

\* applyStep with the argument object as the call leaves it:
\* .newData is the returned TableData, .data the argument after the call
applyStepMem(data, step) ==
    LET m == cloneDeep(data)
        p == step.params
    IN CASE step.op = "filter" ->
              IF ~arrIncludes(m.newData.headers, p.column) THEN m
              ELSE AssignRows(m, filterRows(m.newData.rows, p.column, p.condition, p.value))
         [] step.op = "sort" ->
              SortInPlace(m, sort(m.newData.rows,
                       [a \in Elements(m.newData.rows), b \in Elements(m.newData.rows) |->
                           sortCompare(a, b, p.columns, p.directions)]))
         [] step.op = "dedupe" ->
              AssignRows(m, dedupeFrom(m.newData.rows, p.keys, 1, {}))
         [] step.op = "remove_column" ->
              IF arrIncludes(m.newData.headers, p.column_to_remove)
              THEN ForEachRow(
                     AssignHeaders(m, SelectSeq(m.newData.headers,
                                                LAMBDA h : h # p.column_to_remove)),
                     [row \in Elements(m.newData.rows) |-> Delete(row, p.column_to_remove)])
              ELSE m
         [] step.op = "rename_column" ->
              LET index == indexOf(m.newData.headers, p.old_name)
              IN IF index # -1
                 THEN ForEachRow(SetHeaderAt(m, index, p.new_name),
                                 [row \in Elements(m.newData.rows) |->
                                     renameInRow(row, p.old_name, p.new_name)])
                 ELSE m
         [] step.op = "fill_na" ->
              IF arrIncludes(m.newData.headers, p.fill_column)
              THEN ForEachRow(m, [row \in Elements(m.newData.rows) |->
                                     fillInRow(row, p.fill_column, p.fill_value)])
              ELSE m
         [] step.op = "error" -> m
         [] OTHER -> m

applyStep(data, step) == applyStepMem(data, step).newData

(***************************************************************************)
(* previewStep                                                             *)
(***************************************************************************)
max_smaller(a, b) == IF a > b THEN b ELSE a

\* Math.max
max(a, b) == IF a > b THEN a ELSE b

slice3(arr) == SubSeq(arr, 1, IF Len(arr) < 3 THEN Len(arr) ELSE 3)

\* rows of xs that have no row of ys with the same JSON text
withoutMatch(xs, ys) ==
    SelectSeq(xs, LAMBDA x :
        ~\E j \in 1..Len(ys) : JSONstringify(ys[j]) = JSONstringify(x))

tagRows(rows, status) ==
    [i \in 1..Len(rows) |-> Set(rows[i], "__status", Str(status))]

\* previewStep from const processedData = applyStep(data, step) on; m is the
\* outcome of that call
previewOfApplied(originalRowCount, m) ==
    LET processedData == m.newData
        after == m.data
        newRowCount == Len(processedData.rows)
        diff == [rowsAdded |-> max(0, newRowCount - originalRowCount),
                 rowsRemoved |-> max(0, originalRowCount - newRowCount),
                 rowsModified |-> 0]
        removedSample == IF diff.rowsRemoved > 0
                         THEN tagRows(slice3(withoutMatch(after.rows, processedData.rows)),
                                      "removed")
                         ELSE <<>>
        addedSample == IF diff.rowsAdded > 0
                       THEN tagRows(slice3(withoutMatch(processedData.rows, after.rows)),
                                    "added")
                       ELSE <<>>
        sample == removedSample \o addedSample
    IN [data |-> after,
        result |-> [diff |-> diff,
                    sample |-> IF Len(sample) = 0 /\ Len(processedData.rows) > 0
                               THEN tagRows(slice3(processedData.rows), "unmodified")
                               ELSE sample]]

\* previewStep with the argument object as the call leaves it
previewStepMem(data, step) == previewOfApplied(Len(data.rows), applyStepMem(data, step))

previewStep(data, step) == previewStepMem(data, step).result

(***************************************************************************)
(* The type detector.                                                      *)
(***************************************************************************)
IsSpace(c) == c = " "

\* String.prototype.trim
RECURSIVE trim(_)
trim(s) ==
    IF Len(s) = 0 THEN s
    ELSE IF IsSpace(CharAt(s, 1)) THEN trim(SubSeq(s, 2, Len(s)))
    ELSE IF IsSpace(CharAt(s, Len(s))) THEN trim(SubSeq(s, 1, Len(s) - 1))
    ELSE s

isNumericStrict(val) ==
    IF val.t = "string" /\ trim(val.s) = "" THEN FALSE
    ELSE IF toLowerCase(String(val)) \in {"true", "false"} THEN FALSE
    ELSE ~IsNaN(parseFloat(val)) /\ isFinite(val)

IsDateSeparator(c) == c \in {"-", "/"}

\* the length of the prefix of s that dateRegex matches with a month of
\* monthLen digits, 0 when it does not match
dateMatchLen(s, monthLen) ==
    LET daySep == 6 + monthLen
    IN IF /\ Len(s) >= daySep + 1
          /\ \A i \in 1..4 : IsDigit(CharAt(s, i))
          /\ IsDateSeparator(CharAt(s, 5))
          /\ \A i \in 6..(5 + monthLen) : IsDigit(CharAt(s, i))
          /\ IsDateSeparator(CharAt(s, daySep))
          /\ IsDigit(CharAt(s, daySep + 1))
       THEN IF Len(s) >= daySep + 2 /\ IsDigit(CharAt(s, daySep + 2))
            THEN daySep + 2 ELSE daySep + 1
       ELSE 0

\* dateRegex.test(s)
dateRegexTest(s) == dateMatchLen(s, 2) > 0 \/ dateMatchLen(s, 1) > 0

\* what new Date(s) makes of a day that the month does not have: the date
\* string is outside the ECMAScript format then and the engine decides; one
\* engine rolls such a day of 29 to 31 over into the next month, another
\* answers Invalid Date
DateParsers == {"rollover", "calendar"}

IsLeapYear(year) == year % 4 = 0 /\ (year % 100 # 0 \/ year % 400 = 0)

DaysInMonth(year, month) ==
    IF month = 2 THEN (IF IsLeapYear(year) THEN 29 ELSE 28)
    ELSE IF month \in {4, 6, 9, 11} THEN 30
    ELSE 31

\* !isNaN(new Date(s).getTime()) for a string that dateRegex matches and that
\* is a year, a month and a day and nothing else
dateIsValid(s, parser) ==
    LET monthLen == IF dateMatchLen(s, 2) > 0 THEN 2 ELSE 1
        matched == dateMatchLen(s, monthLen)
        year == StrToNat(SubSeq(s, 1, 4))
        month == StrToNat(SubSeq(s, 6, 5 + monthLen))
        day == StrToNat(SubSeq(s, 7 + monthLen, matched))
    IN /\ matched = Len(s)
       /\ month \in 1..12
       /\ day \in 1..(IF parser = "rollover" THEN 31 ELSE DaysInMonth(year, month))

isDateStrict(val, parser) ==
    IF val.t # "string" \/ val.s = "" THEN FALSE
    ELSE IF dateRegexTest(val.s) THEN dateIsValid(val.s, parser)
    ELSE FALSE

isBooleanStrict(val) ==
    IF val = Null \/ val = Undefined THEN FALSE
    ELSE toLowerCase(String(val)) \in {"true", "false"}

\* the number of rows inferColumnTypes analyzes at most
SampleLimit == 100

inferColumnType_allRows(rows, header, parser) ==
    LET sampleSize == Len(rows)
        values == {Get(rows[i], header) : i \in 1..sampleSize}
        sampled == {value \in values :
                       ~(value = Null \/ value = Undefined \/ trim(String(value)) = "")}
    IN IF sampleSize = 0 THEN "string"
       ELSE IF sampled = {} THEN "string"
       ELSE IF \A value \in sampled : isBooleanStrict(value) THEN "boolean"
       ELSE IF \A value \in sampled : isNumericStrict(value) THEN "number"
       ELSE IF \A value \in sampled : isDateStrict(value, parser) THEN "date"
       ELSE "string"

\* the type inferColumnTypes gives to one header
inferColumnType(rows, header, parser) ==
    LET sampleSize == IF Len(rows) < SampleLimit THEN Len(rows) ELSE SampleLimit
        values == {Get(rows[i], header) : i \in 1..sampleSize}
        sampled == {value \in values :
                       ~(value = Null \/ value = Undefined \/ trim(String(value)) = "")}
    IN IF sampleSize = 0 THEN "string"
       ELSE IF sampled = {} THEN "string"
       ELSE IF \A value \in sampled : isBooleanStrict(value) THEN "boolean"
       ELSE IF \A value \in sampled : isNumericStrict(value) THEN "number"
       ELSE IF \A value \in sampled : isDateStrict(value, parser) THEN "date"
       ELSE "string"

\* inferColumnTypes(rows, headers): the object columnTypes, a key per header
RECURSIVE inferColumnTypesFrom(_, _, _, _, _)
inferColumnTypesFrom(rows, headers, i, columnTypes, parser) ==
    IF i > Len(headers) THEN columnTypes
    ELSE inferColumnTypesFrom(rows, headers, i + 1,
             Set(columnTypes, headers[i], inferColumnType(rows, headers[i], parser)), parser)

inferColumnTypes(rows, headers, parser) == inferColumnTypesFrom(rows, headers, 1, <<>>, parser)

\* the initialSchema the complete callback builds: {type: types[h] || 'string'}
\* for each header, a column without description
RECURSIVE initialSchemaFrom(_, _, _, _)
initialSchemaFrom(types, headers, i, schema) ==
    IF i > Len(headers) THEN schema
    ELSE initialSchemaFrom(types, headers, i + 1,
             Set(schema, headers[i],
                 [type |-> IF HasKey(types, headers[i]) THEN Get(types, headers[i])
                           ELSE "string",
                  description |-> Undefined]))

initialSchema(data, parser) ==
    initialSchemaFrom(inferColumnTypes(data.rows, data.headers, parser), data.headers, 1, <<>>)

(***************************************************************************)
(* The data grid's conditional formatting.                                 *)
(***************************************************************************)
\* checkCondition(cellValue, rule) of the data grid
checkCondition(cellValue, rule) ==
    IF cellValue = Null \/ cellValue = Undefined THEN FALSE
    ELSE LET ruleValue == IF isNumeric(rule.value) THEN parseFloat(rule.value) ELSE rule.value
             comparableCellValue ==
                 IF isNumeric(cellValue) THEN parseFloat(cellValue) ELSE cellValue
         IN CASE rule.condition = "equals" -> JsLooseEq(comparableCellValue, ruleValue)
              [] rule.condition = "not_equals" -> ~JsLooseEq(comparableCellValue, ruleValue)
              [] rule.condition = "gt" -> JsLess(ruleValue, comparableCellValue)
              [] rule.condition = "lt" -> JsLess(comparableCellValue, ruleValue)
              [] rule.condition = "gte" -> JsLessEq(ruleValue, comparableCellValue)
              [] rule.condition = "lte" -> JsLessEq(comparableCellValue, ruleValue)
              [] rule.condition = "contains" ->
                     includes(toLowerCase(String(cellValue)), toLowerCase(String(rule.value)))
              [] rule.condition = "not_contains" ->
                     ~includes(toLowerCase(String(cellValue)), toLowerCase(String(rule.value)))
              [] OTHER -> FALSE

(***************************************************************************)
(* Inputs of the engine functions.                                         *)
(***************************************************************************)
\* the row object {a: a, b: b}; an undefined value stands for an absent key
MkRow(a, b) ==
    (IF a = Undefined THEN <<>> ELSE <<[k |-> "a", v |-> a]>>)
    \o (IF b = Undefined THEN <<>> ELSE <<[k |-> "b", v |-> b]>>)

PureHeaders == <<"a", "b">>

PureRows ==
    {MkRow(a, Str("y")) : a \in {Num(1), Num(2), Str("1"), Null, Str(""), Str("x")}}
    \cup {MkRow(Num(1), Undefined), MkRow(Str("x"), Undefined)}
    \cup {MkRow(Str("x||"), Str("y")), MkRow(Str("x"), Str("||y"))}
    \cup {MkRow(Str("0x10"), Str("y"))}

SeqsUpTo(S, n) == UNION {[1..k -> S] : k \in 0..n}

PureDatasets == {[headers |-> PureHeaders, rows |-> rows] : rows \in SeqsUpTo(PureRows, MaxRows)}

Conditions ==
    {"equals", "not_equals", "gt", "lt", "gte", "lte", "contains", "not_contains"}

FilterStep(column, condition, value) ==
    [op |-> "filter", params |-> [column |-> column, condition |-> condition, value |-> value]]

SortStep(columns, directions) ==
    [op |-> "sort", params |-> [columns |-> columns, directions |-> directions]]

DedupeStep(keys) == [op |-> "dedupe", params |-> [keys |-> keys]]

RemoveColumnStep(column) ==
    [op |-> "remove_column", params |-> [column_to_remove |-> column]]

RenameColumnStep(old_name, new_name) ==
    [op |-> "rename_column", params |-> [old_name |-> old_name, new_name |-> new_name]]

FillNAStep(column, value) ==
    [op |-> "fill_na", params |-> [fill_column |-> column, fill_value |-> value]]

ErrorStep == [op |-> "error", params |-> [message |-> "unclear"]]

ConditionalFormatStep(column, condition, value, color) ==
    [op |-> "conditional_format",
     params |-> [column |-> column, condition |-> condition, value |-> value, color |-> color]]

UnknownStep == [op |-> "pivot", params |-> [column |-> "a"]]

PureSteps ==
    {FilterStep("a", c, v) : c \in Conditions \cup {"like"}, v \in {Str("1"), Str("x")}}
    \cup {FilterStep("zz", "equals", Str("1"))}
    \cup {SortStep(<<"a">>, <<"asc">>), SortStep(<<"a">>, <<"desc">>), SortStep(<<"a">>, <<>>),
          SortStep(<<"b", "a">>, <<"asc", "desc">>), SortStep(<<"zz">>, <<"asc">>)}
    \cup {DedupeStep(<<"a">>), DedupeStep(<<"b">>), DedupeStep(<<"a", "b">>), DedupeStep(<<"zz">>)}
    \cup {RemoveColumnStep("a"), RemoveColumnStep("b"), RemoveColumnStep("zz")}
    \cup {RenameColumnStep("a", "c"), RenameColumnStep("a", "a"), RenameColumnStep("a", "b"),
          RenameColumnStep("b", "a"), RenameColumnStep("zz", "c")}
    \cup {FillNAStep("a", Str("0")), FillNAStep("a", Str("x")), FillNAStep("b", Str("y")),
          FillNAStep("zz", Str("0")), FillNAStep("a", Str("")), FillNAStep("a", Str("0x10"))}
    \cup {ErrorStep, ConditionalFormatStep("a", "gt", Str("1"), "red"), UnknownStep}

\* the cells of the column whose type is inferred
TypeValues ==
    {Null, Undefined, Str(" "), Str("true"), Bool(FALSE), Num(1), Str("12"),
     Str("2024-01-15"), Str("2024-02-30"), Str("x")}

TypeRows == {MkRow(v, Undefined) : v \in TypeValues}

\* n rows with an empty cell
RECURSIVE EmptyRows(_)
EmptyRows(n) == IF n <= 0 THEN <<>> ELSE <<MkRow(Str(""), Undefined)>> \o EmptyRows(n - 1)

\* no row or one row, the last row of a row list
LateRows == {<<>>} \cup {<<MkRow(v, Undefined)>> : v \in {Num(1), Str("true"), Str("x")}}

\* row lists shorter than the sample limit, and row lists of up to MaxRows
\* rows, empty rows up to the last or the last but one row of the sample, and
\* no or one row behind them
TypeRowLists ==
    {lead \o EmptyRows(fill - Len(lead)) \o late :
        lead \in SeqsUpTo(TypeRows, MaxRows),
        fill \in {0, SampleLimit - 1, SampleLimit},
        late \in LateRows}

TypeDatasets == {[headers |-> <<"a">>, rows |-> rows] : rows \in TypeRowLists}

\* what Papa.parse can deliver for the files the user selects
FileA ==
    [headers |-> <<"a", "b">>,
     rows |-> <<MkRow(Num(1), Str("y")), MkRow(Num(1), Str("y")), MkRow(Num(2), Null)>>]

FileB == [headers |-> <<"a">>, rows |-> <<MkRow(Str("x"), Undefined)>>]

Files == {FileA, FileB}

(***************************************************************************)
(* The command translator (parseCommand).                                  *)
(***************************************************************************)
\* Object.values(Operation)
Operation ==
    {"filter", "sort", "dedupe", "remove_column", "rename_column", "fill_na",
     "conditional_format", "error"}

\* generateContent rejects with an Error that has this message
RejectedResponse(message) == [kind |-> "rejected", message |-> message]

\* generateContent resolves with a text that JSON.parse rejects
UnparsableResponse == [kind |-> "text", parsed |-> FALSE]

\* generateContent resolves with the JSON text of this object
JsonResponse(json) == [kind |-> "text", parsed |-> TRUE, json |-> json]

\* the message of the step parseCommand returns from its catch block
userMessage(message) ==
    IF includes(message, "429") \/ includes(message, "RESOURCE_EXHAUSTED")
    THEN "You have exceeded your API quota."
    ELSE IF includes(message, "API_KEY_INVALID") THEN "The provided API key is invalid."
    ELSE "An error occurred while communicating with the AI."

failedStep(message) ==
    [op |-> "error", params |-> [message |-> userMessage(message)],
     explanation |-> "Failed to process the command."]

parseCommand_noValidation(response) ==
    IF response.kind = "rejected" THEN failedStep(response.message)
    ELSE IF ~response.parsed THEN failedStep("Unexpected token")
    ELSE response.json

\* the Step that parseCommand resolves to
parseCommand(response) ==
    IF response.kind = "rejected" THEN failedStep(response.message)
    ELSE IF ~response.parsed THEN failedStep("Unexpected token")
    ELSE IF "op" \notin DOMAIN response.json \/ response.json.op \notin Operation
    THEN failedStep("Invalid or missing operation in AI response.")
    ELSE response.json

\* a translator failure: the service rejects, the text is no JSON, or the
\* object has no operation of Operation
IsFailure(response) ==
    \/ response.kind = "rejected"
    \/ ~response.parsed
    \/ "op" \notin DOMAIN response.json
    \/ response.json.op \notin Operation

\* what the translator answers in a session with file loads
Responses ==
    {JsonResponse(step) : step \in {DedupeStep(<<"a">>), RenameColumnStep("a", "c"), ErrorStep,
                                     ConditionalFormatStep("a", "gt", Str("1"), "red")}}

\* the answers that are no step of the step applier: translator failures,
\* an error step, a conditional format, a step without params
OtherResponses ==
    {RejectedResponse("429 RESOURCE_EXHAUSTED"), RejectedResponse("fetch failed"),
     UnparsableResponse, JsonResponse(UnknownStep), JsonResponse([op |-> "sort"]),
     JsonResponse(ErrorStep), JsonResponse([op |-> "error"]),
     JsonResponse(ConditionalFormatStep("a", "gt", Str("1"), "red"))}

\* the steps the translator proposes in a session on one loaded file
CommitSteps ==
    {FilterStep("a", "equals", Str("1")), SortStep(<<"a">>, <<"desc">>), DedupeStep(<<"a">>),
     RemoveColumnStep("b"), RenameColumnStep("a", "b"), RenameColumnStep("a", "a"),
     RenameColumnStep("b", "c"), FillNAStep("b", Str("0"))}

\* what the translator answers in a session on one loaded file
CommitResponses == {JsonResponse(step) : step \in CommitSteps} \cup OtherResponses

(***************************************************************************)
(* State.                                                                  *)
(***************************************************************************)
VARIABLES
    tableData,          \* useState: the current dataset
    history,            \* useState: the snapshots {data, steps}
    steps,              \* useState: the committed steps
    agentStatus,        \* useState: AgentStatus
    previewData,        \* useState: the pending preview, or NoPreview for null
    conditionalFormats, \* useState: the conditional-format rules
    columnSchema,       \* useState: the ColumnInfo of each column, an object
    pendingCommands,    \* parseCommand calls in flight, each with the tableData
                        \* its handleSendMessage closure captured
    pendingParse,       \* Papa.parse calls in flight, each with the file's content
    loads,              \* number of files selected so far
    sortConfig,         \* useState: the display sort, or NoSort for null
    pendingDescriptions, \* generateColumnDescriptions calls in flight, each
                        \* with the headers and rows it was called with
    event,              \* the handler that ran last
    preCommit,          \* what applyChanges found when it ran last, while no
                        \* other handler has run since
    resolved,           \* the answer or the request that the handler that ran
                        \* last received, if it received one
    messagesUpdate,     \* the setMessages call of the handler that ran last
    argData,            \* the TableData passed to an engine function
    argStep,            \* the Step passed to it
    ret,                \* what the call returned and what it left of its argument
    pc                  \* "ready" before the call, then the function that was called

sessionVars == <<tableData, history, steps, agentStatus, previewData, conditionalFormats,
                 columnSchema, pendingCommands, pendingParse, loads>>

displayVars == <<sortConfig, pendingDescriptions>>

pureVars == <<argData, argStep, ret, pc>>

observed == <<event, preCommit, resolved, messagesUpdate>>

vars == <<sessionVars, displayVars, observed, pureVars>>

NoTable == [headers |-> <<>>, rows |-> <<>>]

NoPreview == [step |-> ErrorStep,
              diff |-> [rowsAdded |-> 0, rowsRemoved |-> 0, rowsModified |-> 0],
              sample |-> <<>>,
              null |-> TRUE]

\* sortConfig is null
NoSort == [null |-> TRUE, key |-> "", direction |-> "asc"]

NoResponse == [kind |-> "none"]

\* the handler did not call setMessages
NoMessage == [op |-> "none"]

\* setMessages(messages)
SetMessages(messages) == [op |-> "set", messages |-> messages]

\* setMessages(prev => [...prev, message])
AppendMessage(message) == [op |-> "append", message |-> message]

\* a Message without its id
Message(sender, content, suggestions) ==
    [sender |-> sender, content |-> content, suggestions |-> suggestions]

\* step.explanation
explanation(step) ==
    IF "explanation" \in DOMAIN step THEN Str(step.explanation) ELSE Undefined

\* the message of the complete callback for a file named data.csv
loadedMessage(initialData) ==
    Message("agent",
            "Loaded data.csv. " \o ToString(Len(initialData.rows)) \o " rows and "
                \o ToString(Len(initialData.headers))
                \o " columns. Ready for your instructions.",
            Undefined)

NoCommit == [tableData |-> NoTable, steps |-> <<>>, history |-> <<>>, null |-> TRUE]

NoRet == [data |-> NoTable, newData |-> NoTable, again |-> NoTable,
          preview |-> [diff |-> [rowsAdded |-> 0, rowsRemoved |-> 0, rowsModified |-> 0],
                       sample |-> <<>>],
          types |-> <<>>, parser |-> "none"]

\* the useState initial values
InitSession ==
    /\ tableData = NoTable
    /\ history = <<>>
    /\ steps = <<>>
    /\ agentStatus = "idle"
    /\ previewData = NoPreview
    /\ conditionalFormats = <<>>
    /\ columnSchema = <<>>
    /\ pendingCommands = <<>>
    /\ pendingParse = <<>>
    /\ loads = 0
    /\ sortConfig = NoSort
    /\ pendingDescriptions = <<>>
    /\ event = "init"
    /\ preCommit = NoCommit
    /\ resolved = NoResponse
    /\ messagesUpdate = NoMessage

InitPure ==
    /\ InitSession
    /\ argData \in PureDatasets
    /\ argStep \in PureSteps
    /\ ret = NoRet
    /\ pc = "ready"

\* const out = applyStep(argData, argStep)
CallApplyStep ==
    /\ pc = "ready"
    /\ LET m == applyStepMem(argData, argStep)
       IN ret' = [NoRet EXCEPT !.data = m.data, !.newData = m.newData]
    /\ pc' = "applyStep"
    /\ UNCHANGED <<argData, argStep, sessionVars, displayVars, observed>>

\* const out = previewStep(argData, argStep)
CallPreviewStep ==
    /\ pc = "ready"
    /\ LET r == previewStepMem(argData, argStep)
       IN ret' = [NoRet EXCEPT !.data = r.data, !.preview = r.result]
    /\ pc' = "previewStep"
    /\ UNCHANGED <<argData, argStep, sessionVars, displayVars, observed>>

\* const again = applyStep(out, argStep)
CallApplyStepAgain ==
    /\ pc = "applyStep"
    /\ ret' = [ret EXCEPT !.again = applyStep(ret.newData, argStep)]
    /\ pc' = "applyStepTwice"
    /\ UNCHANGED <<argData, argStep, sessionVars, displayVars, observed>>

NextPure == CallApplyStep \/ CallPreviewStep \/ CallApplyStepAgain

SpecPure == InitPure /\ [][NextPure]_vars

InitTypes ==
    /\ InitSession
    /\ argData \in TypeDatasets
    /\ argStep = ErrorStep
    /\ ret = NoRet
    /\ pc = "ready"

\* const types = inferColumnTypes(argData.rows, argData.headers)
CallInferColumnTypes ==
    /\ pc = "ready"
    /\ \E parser \in DateParsers :
          ret' = [NoRet EXCEPT !.types = inferColumnTypes(argData.rows, argData.headers, parser),
                               !.parser = parser]
    /\ pc' = "inferColumnTypes"
    /\ UNCHANGED <<argData, argStep, sessionVars, displayVars, observed>>

NextTypes == CallInferColumnTypes

SpecTypes == InitTypes /\ [][NextTypes]_vars

(***************************************************************************)
(* The session controller (App).                                           *)
(***************************************************************************)
RemoveAt(seq, i) == SubSeq(seq, 1, i - 1) \o SubSeq(seq, i + 1, Len(seq))

\* handleFileUpload up to the call of Papa.parse: clearState(), then
\* setAgentStatus(Applying); the file is read and parsed asynchronously
handleFileUpload(file) ==
    /\ loads < MaxLoads
    /\ tableData' = NoTable
    /\ history' = <<>>
    /\ steps' = <<>>
    /\ previewData' = NoPreview
    /\ conditionalFormats' = <<>>
    /\ columnSchema' = <<>>
    /\ agentStatus' = "applying"
    /\ pendingParse' = Append(pendingParse, file)
    /\ loads' = loads + 1
    /\ event' = "handleFileUpload"
    /\ preCommit' = NoCommit
    /\ resolved' = NoResponse
    /\ messagesUpdate' = SetMessages(<<>>)
    /\ sortConfig' = NoSort
    /\ UNCHANGED <<pendingCommands, pendingDescriptions, pureVars>>

\* the complete callback of Papa.parse; requests are the calls of
\* generateColumnDescriptions in flight after it
parseCompleted(i, requests) ==
    /\ i \in 1..Len(pendingParse)
    /\ LET initialData == pendingParse[i]
       IN /\ \E parser \in DateParsers : columnSchema' = initialSchema(initialData, parser)
          /\ tableData' = initialData
          /\ history' = <<[data |-> initialData, steps |-> <<>>]>>
    /\ agentStatus' = "idle"
    /\ pendingParse' = RemoveAt(pendingParse, i)
    /\ event' = "parseComplete"
    /\ preCommit' = NoCommit
    /\ resolved' = NoResponse
    /\ messagesUpdate' = SetMessages(<<loadedMessage(pendingParse[i])>>)
    /\ pendingDescriptions' = requests
    /\ UNCHANGED <<steps, previewData, conditionalFormats, pendingCommands, loads,
                   sortConfig, pureVars>>

\* the complete callback when generateColumnDescriptions resolves to {} (its
\* catch block), which leaves the schema as it is
parseComplete(i) == parseCompleted(i, pendingDescriptions)

\* the complete callback with its call generateColumnDescriptions(headers, rows)
\* in flight
parseCompleteDescribing(i) ==
    /\ i \in 1..Len(pendingParse)
    /\ parseCompleted(i, Append(pendingDescriptions, pendingParse[i]))

\* the error callback of Papa.parse
parseError(i) ==
    /\ i \in 1..Len(pendingParse)
    /\ agentStatus' = "idle"
    /\ pendingParse' = RemoveAt(pendingParse, i)
    /\ event' = "parseError"
    /\ preCommit' = NoCommit
    /\ resolved' = NoResponse
    /\ messagesUpdate' =
         SetMessages(<<Message("agent", "Error parsing CSV: parse error", Undefined)>>)
    /\ UNCHANGED <<columnSchema, tableData, history, steps, previewData,
                   conditionalFormats, pendingCommands, loads, displayVars, pureVars>>

executeUndo ==
    /\ IF Len(history) > 1
       THEN LET newHistory == SubSeq(history, 1, Len(history) - 1)
                lastState == newHistory[Len(newHistory)]
            IN /\ history' = newHistory
               /\ tableData' = lastState.data
               /\ steps' = lastState.steps
               /\ previewData' = NoPreview
               /\ messagesUpdate' =
                    AppendMessage(Message("agent",
                                          "Undo successful. Reverted to the previous state.",
                                          Undefined))
       ELSE /\ UNCHANGED <<history, tableData, steps, previewData>>
            /\ messagesUpdate' = NoMessage
    /\ event' = "executeUndo"
    /\ preCommit' = NoCommit
    /\ resolved' = NoResponse
    /\ UNCHANGED <<columnSchema, agentStatus, conditionalFormats, pendingCommands,
                   pendingParse, loads, displayVars, pureVars>>

handleSendMessage_ungated ==
    /\ IF Len(tableData.headers) = 0
       THEN /\ UNCHANGED <<agentStatus, previewData, pendingCommands>>
            /\ messagesUpdate' = NoMessage
       ELSE /\ Len(pendingCommands) < MaxPending
            /\ agentStatus' = "interpreting"
            /\ previewData' = NoPreview
            /\ pendingCommands' = Append(pendingCommands, [tableData |-> tableData])
            /\ messagesUpdate' = AppendMessage(Message("user", "remove duplicates", Undefined))
    /\ event' = "handleSendMessage"
    /\ preCommit' = NoCommit
    /\ resolved' = NoResponse
    /\ UNCHANGED <<columnSchema, tableData, history, steps, conditionalFormats,
                   pendingParse, loads, displayVars, pureVars>>

\* handleSendMessage up to the await of parseCommand
handleSendMessage ==
    /\ IF Len(tableData.headers) = 0 \/ agentStatus # "idle"
       THEN /\ UNCHANGED <<agentStatus, previewData, pendingCommands>>
            /\ messagesUpdate' = NoMessage
       ELSE /\ Len(pendingCommands) < MaxPending
            /\ agentStatus' = "interpreting"
            /\ previewData' = NoPreview
            /\ pendingCommands' = Append(pendingCommands, [tableData |-> tableData])
            /\ messagesUpdate' = AppendMessage(Message("user", "remove duplicates", Undefined))
    /\ event' = "handleSendMessage"
    /\ preCommit' = NoCommit
    /\ resolved' = NoResponse
    /\ UNCHANGED <<columnSchema, tableData, history, steps, conditionalFormats,
                   pendingParse, loads, displayVars, pureVars>>

\* the catch block of handleSendMessage
caught ==
    /\ agentStatus' = "idle"
    /\ messagesUpdate' =
         AppendMessage(Message("agent",
                               "An error occurred: Cannot read properties of undefined",
                               Undefined))
    /\ UNCHANGED <<tableData, previewData, conditionalFormats>>

\* the branch of handleSendMessage for step.op === Operation.Error
errorAnswered(step) ==
    /\ agentStatus' = "idle"
    /\ messagesUpdate' =
         AppendMessage(Message("agent",
                               IF "message" \in DOMAIN step.params /\ step.params.message # ""
                               THEN step.params.message
                               ELSE "I couldn't understand that request.",
                               IF "suggestions" \in DOMAIN step.params
                               THEN step.params.suggestions ELSE Undefined))
    /\ UNCHANGED <<tableData, previewData, conditionalFormats>>

\* uuidv4() for a new rule: an id that no rule of the set has
uuidv4(formats) ==
    CHOOSE id \in 1..(Len(formats) + 1) :
        /\ \A i \in 1..Len(formats) : formats[i].id # id
        /\ \A smaller \in 1..(id - 1) : \E i \in 1..Len(formats) : formats[i].id = smaller

formatAdded_previewed(step) ==
    /\ Len(conditionalFormats) < MaxFormats
    /\ conditionalFormats' =
         Append(conditionalFormats,
                [id |-> uuidv4(conditionalFormats), column |-> step.params.column,
                 condition |-> step.params.condition, value |-> step.params.value,
                 color |-> step.params.color])
    /\ messagesUpdate' =
         AppendMessage(Message("agent",
                               "Applied formatting rule: " \o String(explanation(step)),
                               Undefined))
    /\ agentStatus' = "awaiting_confirmation"
    /\ previewData' = [step |-> step, diff |-> previewStep(tableData, step).diff,
                       sample |-> previewStep(tableData, step).sample, null |-> FALSE]
    /\ UNCHANGED tableData

\* the branch of handleSendMessage for step.op === Operation.ConditionalFormat
formatAdded(step) ==
    /\ Len(conditionalFormats) < MaxFormats
    /\ conditionalFormats' =
         Append(conditionalFormats,
                [id |-> uuidv4(conditionalFormats), column |-> step.params.column,
                 condition |-> step.params.condition, value |-> step.params.value,
                 color |-> step.params.color])
    /\ messagesUpdate' =
         AppendMessage(Message("agent",
                               "Applied formatting rule: " \o String(explanation(step)),
                               Undefined))
    /\ agentStatus' = "idle"
    /\ UNCHANGED <<tableData, previewData>>

\* the preview of handleSendMessage for a step of the step applier;
\* tableData is here the closure's dataset, not the current one
previewed(closure, step) ==
    \E r \in {previewStepMem(closure.tableData, step)} :
       /\ previewData' = [step |-> step, diff |-> r.result.diff,
                          sample |-> r.result.sample, null |-> FALSE]
       /\ agentStatus' = "awaiting_confirmation"
       \* the closure's dataset is the current one unless it was replaced
       /\ tableData' = IF tableData = closure.tableData THEN r.data ELSE tableData
       /\ messagesUpdate' = NoMessage
       /\ UNCHANGED conditionalFormats

parseCommandResolved_autoApply(i, response) ==
    /\ i \in 1..Len(pendingCommands)
    /\ pendingCommands' = RemoveAt(pendingCommands, i)
    /\ Len(steps) < MaxCommits
    /\ LET step == parseCommand(response)
           newTableData == applyStep(pendingCommands[i].tableData, step)
           newSteps == Append(steps, step)
       IN /\ "params" \in DOMAIN step
          /\ step.op \notin {"error", "conditional_format"}
          /\ tableData' = newTableData
          /\ steps' = newSteps
          /\ history' = Append(history, [data |-> newTableData, steps |-> newSteps])
    /\ agentStatus' = "idle"
    /\ event' = "parseCommandResolved"
    /\ preCommit' = NoCommit
    /\ resolved' = response
    /\ messagesUpdate' = NoMessage
    /\ UNCHANGED <<columnSchema, previewData, conditionalFormats, pendingParse, loads,
                   displayVars, pureVars>>

\* handleSendMessage from the await on: the translator has answered and
\* parseCommand has resolved to step.  A step without params makes the
\* error branch and previewStep throw a TypeError.
parseCommandResolved(i, response) ==
    /\ i \in 1..Len(pendingCommands)
    /\ pendingCommands' = RemoveAt(pendingCommands, i)
    /\ LET step == parseCommand(response)
       IN IF step.op = "conditional_format" THEN formatAdded(step)
          ELSE IF "params" \notin DOMAIN step THEN caught
          ELSE IF step.op = "error" THEN errorAnswered(step)
          ELSE previewed(pendingCommands[i], step)
    /\ event' = "parseCommandResolved"
    /\ preCommit' = NoCommit
    /\ resolved' = response
    /\ UNCHANGED <<columnSchema, history, steps, pendingParse, loads, displayVars, pureVars>>

\* applyChanges, the Apply button of the preview card
applyChanges ==
    /\ previewData.null = FALSE
    /\ Len(steps) < MaxCommits
    /\ LET newTableData == applyStep(tableData, previewData.step)
           newSteps == Append(steps, previewData.step)
       IN /\ tableData' = newTableData
          /\ steps' = newSteps
          /\ history' = Append(history, [data |-> newTableData, steps |-> newSteps])
    /\ previewData' = NoPreview
    /\ agentStatus' = "idle"
    /\ event' = "applyChanges"
    /\ preCommit' = [tableData |-> tableData, steps |-> steps, history |-> history,
                     null |-> FALSE]
    /\ resolved' = NoResponse
    /\ messagesUpdate' =
         AppendMessage(Message("agent", "Applied: " \o String(explanation(previewData.step)),
                               Undefined))
    /\ UNCHANGED <<columnSchema, conditionalFormats, pendingCommands, pendingParse,
                   loads, displayVars, pureVars>>

cancelChanges_keepStatus ==
    /\ previewData.null = FALSE
    /\ previewData' = NoPreview
    /\ agentStatus' = agentStatus
    /\ event' = "cancelChanges"
    /\ preCommit' = NoCommit
    /\ resolved' = NoResponse
    /\ messagesUpdate' = NoMessage
    /\ UNCHANGED <<columnSchema, tableData, history, steps, conditionalFormats,
                   pendingCommands, pendingParse, loads, displayVars, pureVars>>

\* cancelChanges, the Cancel button of the preview card
cancelChanges ==
    /\ previewData.null = FALSE
    /\ previewData' = NoPreview
    /\ agentStatus' = "idle"
    /\ event' = "cancelChanges"
    /\ preCommit' = NoCommit
    /\ resolved' = NoResponse
    /\ messagesUpdate' = NoMessage
    /\ UNCHANGED <<columnSchema, tableData, history, steps, conditionalFormats,
                   pendingCommands, pendingParse, loads, displayVars, pureVars>>

\* the click that asks for the removal of the rule with the id
RemoveRequest(id) == [kind |-> "removeFormat", id |-> id]

handleRemoveFormat_keepId(id) ==
    /\ conditionalFormats' = SelectSeq(conditionalFormats, LAMBDA f : f.id = id)
    /\ event' = "handleRemoveFormat"
    /\ preCommit' = NoCommit
    /\ resolved' = RemoveRequest(id)
    /\ messagesUpdate' = NoMessage
    /\ UNCHANGED <<columnSchema, tableData, history, steps, agentStatus, previewData,
                   pendingCommands, pendingParse, loads, displayVars, pureVars>>

\* handleRemoveFormat
handleRemoveFormat(id) ==
    /\ conditionalFormats' = SelectSeq(conditionalFormats, LAMBDA f : f.id # id)
    /\ event' = "handleRemoveFormat"
    /\ preCommit' = NoCommit
    /\ resolved' = RemoveRequest(id)
    /\ messagesUpdate' = NoMessage
    /\ UNCHANGED <<columnSchema, tableData, history, steps, agentStatus, previewData,
                   pendingCommands, pendingParse, loads, displayVars, pureVars>>

(***************************************************************************)
(* The display sort (handleSort, the sortConfig effect, sortedTableData)   *)
(* and the column descriptions.                                            *)
(***************************************************************************)
IsNullish(value) == value = Null \/ value = Undefined

\* x === y
StrictEq(x, y) == x = y /\ ~IsNaN(x)

\* the value counts as true in a condition
Truthy(value) ==
    CASE value.t = "boolean" -> value.n = 1
      [] value.t = "number" -> ~IsNaN(value) /\ value.n # 0
      [] value.t = "string" -> value.s # ""
      [] OTHER -> FALSE

\* x.localeCompare(y), for the characters of Alphabet in code-unit order
localeCompare(x, y) == IF x = y THEN 0 ELSE IF StrLess(x, y) THEN -1 ELSE 1

\* the days before 1 January of the year
DaysBeforeYear(year) ==
    365 * year + ((year - 1) \div 4) - ((year - 1) \div 100) + ((year - 1) \div 400)

RECURSIVE DaysBeforeMonth(_, _)
DaysBeforeMonth(year, month) ==
    IF month <= 1 THEN 0
    ELSE DaysBeforeMonth(year, month - 1) + DaysInMonth(year, month - 1)

\* new Date(value).getTime() in days: a number is a time, a string that
\* isDateStrict accepts is its day (a day the month does not have is a day of
\* the next month), any other value of the model gives Invalid Date
getTime(value, parser) ==
    IF value.t = "number" THEN value
    ELSE IF isDateStrict(value, parser)
    THEN LET s == value.s
             monthLen == IF dateMatchLen(s, 2) > 0 THEN 2 ELSE 1
             year == StrToNat(SubSeq(s, 1, 4))
             month == StrToNat(SubSeq(s, 6, 5 + monthLen))
             day == StrToNat(SubSeq(s, 7 + monthLen, Len(s)))
         IN Num(DaysBeforeYear(year) + DaysBeforeMonth(year, month) + day)
    ELSE NaN

\* x - y as the comparator returns it; the sort takes NaN for 0
Difference(x, y) == IF IsNaN(x) \/ IsNaN(y) THEN 0 ELSE x.n - y.n

displayCompare_nullsByDirection(a, b, config, schema, parser) ==
    LET valA == Get(a, config.key)
        valB == Get(b, config.key)
        type == IF HasKey(schema, config.key) THEN Get(schema, config.key).type ELSE "string"
        order == IF config.direction = "asc" THEN 1 ELSE -1
    IN IF IsNullish(valA) THEN 1 * order
       ELSE IF IsNullish(valB) THEN -1 * order
       ELSE CASE type = "number" -> Difference(ToNumber(valA), ToNumber(valB)) * order
              [] type = "date" -> Difference(getTime(valA, parser), getTime(valB, parser)) * order
              [] type = "boolean" ->
                     (IF StrictEq(valA, valB) THEN 0 ELSE IF Truthy(valA) THEN -1 ELSE 1) * order
              [] OTHER -> localeCompare(String(valA), String(valB)) * order

\* the comparator of sortedTableData
displayCompare(a, b, config, schema, parser) ==
    LET valA == Get(a, config.key)
        valB == Get(b, config.key)
        type == IF HasKey(schema, config.key) THEN Get(schema, config.key).type ELSE "string"
        order == IF config.direction = "asc" THEN 1 ELSE -1
    IN IF IsNullish(valA) THEN 1
       ELSE IF IsNullish(valB) THEN -1
       ELSE CASE type = "number" -> Difference(ToNumber(valA), ToNumber(valB)) * order
              [] type = "date" -> Difference(getTime(valA, parser), getTime(valB, parser)) * order
              [] type = "boolean" ->
                     (IF StrictEq(valA, valB) THEN 0 ELSE IF Truthy(valA) THEN -1 ELSE 1) * order
              [] OTHER -> localeCompare(String(valA), String(valB)) * order

\* the place a binary insertion gives x in the sorted prefix: x goes before
\* the element in the middle when it compares less than it, else behind it
RECURSIVE binaryPlace(_, _, _, _, _)
binaryPlace(sorted, x, cmp, left, right) ==
    IF left >= right THEN left
    ELSE LET mid == left + ((right - left) \div 2)
         IN IF cmp[x, sorted[mid + 1]] < 0
            THEN binaryPlace(sorted, x, cmp, left, mid)
            ELSE binaryPlace(sorted, x, cmp, mid + 1, right)

RECURSIVE binarySortFrom(_, _, _, _)
binarySortFrom(arr, i, sorted, cmp) ==
    IF i > Len(arr) THEN sorted
    ELSE LET place == binaryPlace(sorted, arr[i], cmp, 0, Len(sorted))
         IN binarySortFrom(arr, i + 1,
                SubSeq(sorted, 1, place) \o <<arr[i]>> \o SubSeq(sorted, place + 1, Len(sorted)),
                cmp)

\* Array.prototype.sort with a comparator that is no consistent ordering
\* (two missing values each compare greater than the other): the order is
\* the engine's; the engines of the model insert each element into the sorted
\* prefix, one from the end, one by binary search
SortEngines == {"linear", "binary"}

engineSort(arr, cmp, engine) ==
    IF engine = "linear" THEN sort(arr, cmp) ELSE binarySortFrom(arr, 1, <<>>, cmp)

sortedTableData_inPlace(data, config, schema, engine, parser) ==
    IF config.null \/ Len(data.rows) = 0
    THEN [tableData |-> data, sorted |-> data]
    ELSE LET sortedRows ==
                 engineSort(data.rows,
                            [a \in Elements(data.rows), b \in Elements(data.rows) |->
                                displayCompare(a, b, config, schema, parser)],
                            engine)
         IN [tableData |-> [data EXCEPT !.rows = sortedRows],
             sorted |-> [data EXCEPT !.rows = sortedRows]]

\* the useMemo callback of sortedTableData: .sorted is what it returns, the
\* data of the grid, .tableData is the state's dataset after the call
sortedTableData(data, config, schema, engine, parser) ==
    IF config.null \/ Len(data.rows) = 0
    THEN [tableData |-> data, sorted |-> data]
    ELSE LET sortedRows ==
                 engineSort(data.rows,
                            [a \in Elements(data.rows), b \in Elements(data.rows) |->
                                displayCompare(a, b, config, schema, parser)],
                            engine)
         IN [tableData |-> data, sorted |-> [data EXCEPT !.rows = sortedRows]]

\* the click on the column header key
HeaderClick(key) == [kind |-> "headerClick", key |-> key]

\* handleSort, a click on a column header of the grid
handleSort(key) ==
    /\ key \in Elements(tableData.headers)
    /\ sortConfig' =
         IF ~sortConfig.null /\ sortConfig.key = key
         THEN IF sortConfig.direction = "asc"
              THEN [null |-> FALSE, key |-> key, direction |-> "desc"]
              ELSE NoSort
         ELSE [null |-> FALSE, key |-> key, direction |-> "asc"]
    /\ event' = "handleSort"
    /\ preCommit' = NoCommit
    /\ resolved' = HeaderClick(key)
    /\ messagesUpdate' = NoMessage
    /\ UNCHANGED <<sessionVars, pendingDescriptions, pureVars>>

\* the effect on [tableData.headers, sortConfig] has something to do
SortKeyMissing == ~sortConfig.null /\ ~arrIncludes(tableData.headers, sortConfig.key)

sortConfigEffect_keepSort ==
    /\ SortKeyMissing
    /\ sortConfig' = sortConfig
    /\ event' = "sortConfigEffect"
    /\ preCommit' = NoCommit
    /\ resolved' = NoResponse
    /\ messagesUpdate' = NoMessage
    /\ UNCHANGED <<sessionVars, pendingDescriptions, pureVars>>

\* the effect on [tableData.headers, sortConfig]
sortConfigEffect ==
    /\ SortKeyMissing
    /\ sortConfig' = NoSort
    /\ event' = "sortConfigEffect"
    /\ preCommit' = NoCommit
    /\ resolved' = NoResponse
    /\ messagesUpdate' = NoMessage
    /\ UNCHANGED <<sessionVars, pendingDescriptions, pureVars>>

\* generateColumnDescriptions resolves to this object for these headers
DescriptionsResponse(request, described) ==
    [kind |-> "descriptions", request |-> request, described |-> described]

\* newSchema[header] = {...newSchema[header], description} for the headers of
\* descriptions that the schema has an entry for
RECURSIVE describeFrom(_, _, _)
describeFrom(schema, described, i) ==
    IF i > Len(schema) THEN schema
    ELSE describeFrom(
             IF schema[i].k \in described
             THEN [schema EXCEPT ![i].v.description = Str("about " \o schema[i].k)]
             ELSE schema,
             described, i + 1)

\* the then callback of generateColumnDescriptions; descriptions has a key
\* for those of the request's headers that the service has described
descriptionsResolved(i, described) ==
    /\ i \in 1..Len(pendingDescriptions)
    /\ described \subseteq Elements(pendingDescriptions[i].headers)
    /\ columnSchema' = describeFrom(columnSchema, described, 1)
    /\ pendingDescriptions' = RemoveAt(pendingDescriptions, i)
    /\ event' = "descriptionsResolved"
    /\ preCommit' = NoCommit
    /\ resolved' = DescriptionsResponse(pendingDescriptions[i], described)
    /\ messagesUpdate' = NoMessage
    /\ UNCHANGED <<tableData, history, steps, agentStatus, previewData, conditionalFormats,
                   pendingCommands, pendingParse, loads, sortConfig, pureVars>>

Init ==
    /\ InitSession
    /\ argData = NoTable
    /\ argStep = ErrorStep
    /\ ret = NoRet
    /\ pc = "session"

Next ==
    \/ \E file \in Files : handleFileUpload(file)
    \/ \E i \in 1..Len(pendingParse) : parseComplete(i)
    \/ \E i \in 1..Len(pendingParse) : parseError(i)
    \/ handleSendMessage
    \/ \E i \in 1..Len(pendingCommands), response \in Responses :
          parseCommandResolved(i, response)
    \/ applyChanges
    \/ cancelChanges
    \/ executeUndo

Spec == Init /\ [][Next]_vars

(***************************************************************************)
(* A session on one loaded file: the state after handleFileUpload and the  *)
(* complete callback, then commands, previews, Apply, Cancel and Undo with *)
(* every operation of the step applier.                                    *)
(***************************************************************************)
\* the state after handleFileUpload and the complete callback for the file,
\* with these calls of generateColumnDescriptions in flight
Loaded(file, parser, requests) ==
    /\ columnSchema = initialSchema(file, parser)
    /\ tableData = file
    /\ history = <<[data |-> file, steps |-> <<>>]>>
    /\ steps = <<>>
    /\ agentStatus = "idle"
    /\ previewData = NoPreview
    /\ conditionalFormats = <<>>
    /\ pendingCommands = <<>>
    /\ pendingParse = <<>>
    /\ loads = 1
    /\ sortConfig = NoSort
    /\ pendingDescriptions = requests
    /\ event = "parseComplete"
    /\ preCommit = NoCommit
    /\ resolved = NoResponse
    /\ messagesUpdate = SetMessages(<<loadedMessage(file)>>)
    /\ argData = NoTable
    /\ argStep = ErrorStep
    /\ ret = NoRet
    /\ pc = "session"

InitCommits == \E file \in Files, parser \in DateParsers : Loaded(file, parser, <<>>)

NextCommits ==
    \/ handleSendMessage
    \/ \E i \in 1..Len(pendingCommands), response \in CommitResponses :
          parseCommandResolved(i, response)
    \/ applyChanges
    \/ cancelChanges
    \/ executeUndo

SpecCommits == InitCommits /\ [][NextCommits]_vars

(***************************************************************************)
(* A session on one loaded file with the display sort: clicks on the       *)
(* column headers of the grid and the effect that resets the sort.  The    *)
(* effect runs before the next click is handled.                           *)
(***************************************************************************)
\* what the translator answers in a session with the display sort
DisplayResponses ==
    {JsonResponse(step) : step \in {SortStep(<<"a">>, <<"desc">>), RemoveColumnStep("b"),
                                     RenameColumnStep("a", "c")}}

InitDisplay == \E file \in Files, parser \in DateParsers : Loaded(file, parser, <<>>)

NextDisplay ==
    \/ sortConfigEffect
    \/ \E i \in 1..Len(pendingCommands), response \in DisplayResponses :
          parseCommandResolved(i, response)
    \/ /\ ~SortKeyMissing
       /\ \/ \E key \in Elements(tableData.headers) : handleSort(key)
          \/ handleSendMessage
          \/ applyChanges
          \/ cancelChanges
          \/ executeUndo

SpecDisplay == InitDisplay /\ [][NextDisplay]_vars

\* React runs the effect of a render whose dependencies have changed
SpecDisplayFair == InitDisplay /\ [][NextDisplay]_vars /\ WF_vars(sortConfigEffect)

(***************************************************************************)
(* A session on one loaded file while the column descriptions that the     *)
(* complete callback has asked for are on their way.                       *)
(***************************************************************************)
\* what the translator answers in a session with descriptions on their way
DescribeResponses ==
    {JsonResponse(step) : step \in {DedupeStep(<<"a">>), RemoveColumnStep("b"),
                                     RenameColumnStep("a", "c")}}

InitDescribe ==
    \E file \in Files, parser \in DateParsers : Loaded(file, parser, <<file>>)

NextDescribe ==
    \/ \E i \in 1..Len(pendingDescriptions), described \in SUBSET {"a", "b"} :
          descriptionsResolved(i, described)
    \/ \E i \in 1..Len(pendingCommands), response \in DescribeResponses :
          parseCommandResolved(i, response)
    \/ handleSendMessage
    \/ applyChanges
    \/ cancelChanges
    \/ executeUndo

SpecDescribe == InitDescribe /\ [][NextDescribe]_vars

(***************************************************************************)
(* File loads with the column descriptions of each loaded file on their    *)
(* way: a file can be selected, and delivered, before the descriptions of  *)
(* an earlier file have arrived.                                           *)
(***************************************************************************)
NextReload ==
    \/ \E file \in Files : handleFileUpload(file)
    \/ \E i \in 1..Len(pendingParse) : parseCompleteDescribing(i)
    \/ \E i \in 1..Len(pendingParse) : parseError(i)
    \/ \E i \in 1..Len(pendingDescriptions), described \in SUBSET {"a", "b"} :
          descriptionsResolved(i, described)

SpecReload == Init /\ [][NextReload]_vars

(***************************************************************************)
(* A session with conditional-format rules: the translator answers with a  *)
(* rule or with a data step, and rules are removed by id.                  *)
(***************************************************************************)
\* what the translator answers in a session with conditional-format rules
FormatResponses ==
    {JsonResponse(step) : step \in {ConditionalFormatStep("a", "gt", Str("1"), "red"),
                                     ConditionalFormatStep("b", "equals", Str("y"), "green"),
                                     DedupeStep(<<"a">>)}}

NextFormats ==
    \/ \E file \in Files : handleFileUpload(file)
    \/ \E i \in 1..Len(pendingParse) : parseComplete(i)
    \/ handleSendMessage
    \/ \E i \in 1..Len(pendingCommands), response \in FormatResponses :
          parseCommandResolved(i, response)
    \/ applyChanges
    \/ cancelChanges
    \/ executeUndo
    \/ \E id \in 1..MaxFormats : handleRemoveFormat(id)

SpecFormats == Init /\ [][NextFormats]_vars

(***************************************************************************)
(* Properties of the engine functions (checked under SpecPure).            *)
(***************************************************************************)

\* C1: applyStep(D, S) and previewStep(D, S) leave D as it was, for every
\* dataset D and every step S: after the call the argument object has the
\* headers and the rows it had before.
C1_ArgumentUnchanged ==
    pc \in {"applyStep", "previewStep"} => ret.data = argData

\* a step that rewrites headers and row objects was applied and its result
\* differs from the argument
C1_Witness ==
    /\ pc = "applyStep"
    /\ argStep.op = "rename_column"
    /\ ret.newData.headers # argData.headers
    /\ ret.newData.rows # argData.rows
    /\ ret.data = argData

AllAbsent(headers, columns) ==
    Len(columns) > 0 /\ \A i \in 1..Len(columns) : ~arrIncludes(headers, columns[i])

\* the step is a column operation and no column it names is a header of D
MissingTarget(D, S) ==
    CASE S.op = "filter" -> ~arrIncludes(D.headers, S.params.column)
      [] S.op = "sort" -> AllAbsent(D.headers, S.params.columns)
      [] S.op = "dedupe" -> AllAbsent(D.headers, S.params.keys)
      [] S.op = "remove_column" -> ~arrIncludes(D.headers, S.params.column_to_remove)
      [] S.op = "rename_column" -> ~arrIncludes(D.headers, S.params.old_name)
      [] S.op = "fill_na" -> ~arrIncludes(D.headers, S.params.fill_column)
      [] OTHER -> FALSE

\* C8: when the column (or key column) a filter, sort, dedupe, remove_column,
\* rename_column or fill_na step names is not a header of D, applyStep
\* returns a dataset with D's headers and D's rows in D's order.
C8_NoOpOnMissingColumn ==
    (pc = "applyStep" /\ MissingTarget(argData, argStep)) => ret.newData = argData

\* the values of a row on the key columns
KeyTuple(row, keys) == [i \in 1..Len(keys) |-> Get(row, keys[i])]

RECURSIVE IsSubsequence(_, _)
IsSubsequence(xs, ys) ==
    IF Len(xs) = 0 THEN TRUE
    ELSE IF Len(ys) = 0 THEN FALSE
    ELSE IF Head(xs) = Head(ys) THEN IsSubsequence(Tail(xs), Tail(ys))
    ELSE IsSubsequence(xs, Tail(ys))

\* C9: the rows of applyStep(D, dedupe(K)) have pairwise different values on
\* K, are a subsequence of D's rows, and contain, for each value of the key,
\* the first row of D that carries it.
C9_DedupeInvariant ==
    (pc = "applyStep" /\ argStep.op = "dedupe") =>
        LET K == argStep.params.keys
            out == ret.newData.rows
            rows == argData.rows
        IN /\ \A i, j \in 1..Len(out) : i # j => KeyTuple(out[i], K) # KeyTuple(out[j], K)
           /\ IsSubsequence(out, rows)
           /\ \A i \in 1..Len(rows) :
                (\A j \in 1..(i - 1) : KeyTuple(rows[j], K) # KeyTuple(rows[i], K))
                    => \E n \in 1..Len(out) : out[n] = rows[i]

\* C10: for D with header old, applyStep(D, rename_column(old, new)) has D's
\* row count, has new at old's position in the headers, and every row i of
\* it has under new the value row i of D has under old.
C10_RenameKeepsValues ==
    (/\ pc = "applyStep"
     /\ argStep.op = "rename_column"
     /\ arrIncludes(argData.headers, argStep.params.old_name)) =>
        LET old == argStep.params.old_name
            new == argStep.params.new_name
        IN /\ Len(ret.newData.rows) = Len(argData.rows)
           /\ ret.newData.headers[indexOf(argData.headers, old)] = new
           /\ \A i \in 1..Len(argData.rows) :
                Get(ret.newData.rows[i], new) = Get(argData.rows[i], old)

\* C11: applying an equals filter to its own result gives that result again.
C11_FilterIdempotent ==
    (pc = "applyStepTwice" /\ argStep.op = "filter" /\ argStep.params.condition = "equals")
        => ret.again = ret.newData

\* an equals filter that dropped one of two rows was applied a second time
C11_Witness ==
    /\ pc = "applyStepTwice"
    /\ argStep.op = "filter"
    /\ argStep.params.condition = "equals"
    /\ Len(argData.rows) = 2
    /\ Len(ret.newData.rows) = 1
    /\ ret.again = ret.newData

\* the formatting rule with the column, condition and operand of a filter step
RuleOf(step) ==
    [id |-> 1, column |-> step.params.column, condition |-> step.params.condition,
     value |-> step.params.value, color |-> "red"]

\* the filter step of the call was applied to a dataset that has its column
FilterApplied == pc = "applyStep" /\ argStep.op = "filter"
                 /\ arrIncludes(argData.headers, argStep.params.column)

\* C12: under each of the eight operators a row whose cell is null or
\* undefined is dropped by the filter and its cell is not highlighted by the
\* rule, and for every row the filter keeps it exactly when the rule with the
\* same condition and operand highlights its cell.
C12_NullFailsEveryCondition ==
    (FilterApplied /\ argStep.params.condition \in Conditions) =>
        \A row \in Elements(argData.rows) :
            LET cell == Get(row, argStep.params.column)
                kept == row \in Elements(ret.newData.rows)
            IN /\ (cell = Null \/ cell = Undefined) =>
                      (~kept /\ ~checkCondition(cell, RuleOf(argStep)))
               /\ kept = checkCondition(cell, RuleOf(argStep))

\* C13: a filter whose condition is none of the eight operators keeps no
\* row, and a rule with that condition highlights no cell.
C13_UnknownConditionFails ==
    (FilterApplied /\ argStep.params.condition \notin Conditions) =>
        /\ ret.newData.rows = <<>>
        /\ \A row \in Elements(argData.rows) :
              ~checkCondition(Get(row, argStep.params.column), RuleOf(argStep))

\* C17: the diff of previewStep(D, S) has rowsAdded = max(0, |apply(D, S)| - |D|),
\* rowsRemoved = max(0, |D| - |apply(D, S)|) and rowsModified = 0, and at most
\* one of rowsAdded and rowsRemoved is not zero.
C17_PreviewDiff ==
    pc = "previewStep" =>
        LET processed == Len(applyStep(argData, argStep).rows)
            original == Len(argData.rows)
            diff == ret.preview.diff
        IN /\ diff.rowsAdded = (IF processed > original THEN processed - original ELSE 0)
           /\ diff.rowsRemoved = (IF original > processed THEN original - processed ELSE 0)
           /\ diff.rowsModified = 0
           /\ diff.rowsAdded = 0 \/ diff.rowsRemoved = 0

\* the preview of a step that removes one of two rows
C17_Witness ==
    /\ pc = "previewStep"
    /\ Len(argData.rows) = 2
    /\ ret.preview.diff = [rowsAdded |-> 0, rowsRemoved |-> 1, rowsModified |-> 0]

\* the operations that applyStep has a case for, other than error
AppliedOperations ==
    {"filter", "sort", "dedupe", "remove_column", "rename_column", "fill_na"}

\* C19: for an error step and for a step whose operation the applier has no
\* case for (conditional_format among them), applyStep(D, step) is equal to D.
C19_ErrorAndUnknownAreIdentity ==
    (pc = "applyStep" /\ argStep.op \notin AppliedOperations) => ret.newData = argData

\* applyStep has returned from a conditional_format step on two rows
C19_Witness ==
    /\ pc = "applyStep"
    /\ argStep.op = "conditional_format"
    /\ Len(argData.rows) = 2
    /\ ret.newData = argData

\* structural equality of two row objects: the same properties with the
\* same values
StructEq(r, s) == Elements(r) = Elements(s)

\* the rows of xs that have no structurally equal row in ys
Unmatched(xs, ys) ==
    SelectSeq(xs, LAMBDA x : ~\E j \in 1..Len(ys) : StructEq(x, ys[j]))

\* the rows of a sample that carry the tag, without the tag
Tagged(sample, status) ==
    LET tagged == SelectSeq(sample, LAMBDA r : Get(r, "__status") = Str(status))
    IN [i \in 1..Len(tagged) |-> Delete(tagged[i], "__status")]

Min(a, b) == IF a < b THEN a ELSE b

\* C26: in the sample of previewStep(D, S) the rows tagged removed are rows of
\* D without a structurally equal row in apply(D, S), the rows tagged added are
\* rows of apply(D, S) without a structurally equal row in D, min(3, n) of each
\* when there are n such rows, and when there is no such row the sample is the
\* first min(3, |apply(D, S)|) rows of apply(D, S) tagged unmodified.
C26_SampleTags ==
    pc = "previewStep" =>
        LET processed == applyStep(argData, argStep).rows
            removed == Unmatched(argData.rows, processed)
            added == Unmatched(processed, argData.rows)
            sample == ret.preview.sample
        IN /\ Elements(Tagged(sample, "removed")) \subseteq Elements(removed)
           /\ Len(Tagged(sample, "removed")) = Min(3, Len(removed))
           /\ Elements(Tagged(sample, "added")) \subseteq Elements(added)
           /\ Len(Tagged(sample, "added")) = Min(3, Len(added))
           /\ IF Len(removed) = 0 /\ Len(added) = 0
              THEN Tagged(sample, "unmodified") = SubSeq(processed, 1, Min(3, Len(processed)))
              ELSE Len(Tagged(sample, "unmodified")) = 0

\* the number of times row x occurs in rows
Count(rows, x) == Cardinality({i \in 1..Len(rows) : rows[i] = x})

IsPermutation(xs, ys) ==
    /\ Len(xs) = Len(ys)
    /\ \A x \in Elements(xs) \cup Elements(ys) : Count(xs, x) = Count(ys, x)

\* row r may stand directly before row s: on the first column of columns on
\* which one of the two values is less than the other, and on the first
\* column on which the two values are not the same, s is not on the wrong
\* side of r for that column's direction
InOrder(r, s, columns, directions) ==
    \A differ \in {"value", "order"} :
        LET Differ(c) ==
                IF differ = "value" THEN Get(r, c) # Get(s, c)
                ELSE JsLess(Get(r, c), Get(s, c)) \/ JsLess(Get(s, c), Get(r, c))
            first == {i \in 1..Len(columns) :
                         /\ Differ(columns[i])
                         /\ \A j \in 1..(i - 1) : ~Differ(columns[j])}
        IN \A i \in first :
              IF i <= Len(directions) /\ directions[i] = "desc"
              THEN /\ ~JsLess(Get(r, columns[i]), Get(s, columns[i]))
                   /\ differ = "order" => JsLess(Get(s, columns[i]), Get(r, columns[i]))
              ELSE /\ ~JsLess(Get(s, columns[i]), Get(r, columns[i]))
                   /\ differ = "order" => JsLess(Get(r, columns[i]), Get(s, columns[i]))

\* C27: applyStep(D, sort(columns, directions)) has D's headers and a
\* permutation of D's rows; of two adjacent rows the first sort column on which
\* they differ puts them in that column's direction (ascending when the
\* direction is missing); rows with the same values on all sort columns are in
\* the order they have in D.
C27_SortOrdersRows ==
    (pc = "applyStep" /\ argStep.op = "sort") =>
        LET columns == argStep.params.columns
            directions == argStep.params.directions
            rows == ret.newData.rows
            SameKeys(r, s) == \A i \in 1..Len(columns) : Get(r, columns[i]) = Get(s, columns[i])
        IN /\ ret.newData.headers = argData.headers
           /\ IsPermutation(rows, argData.rows)
           /\ \A i \in 1..(Len(rows) - 1) : InOrder(rows[i], rows[i + 1], columns, directions)
           /\ \A r \in Elements(rows) :
                 SelectSeq(rows, LAMBDA s : SameKeys(r, s))
                     = SelectSeq(argData.rows, LAMBDA s : SameKeys(r, s))

\* a descending sort on column a has exchanged two rows
C27_Witness ==
    /\ pc = "applyStep"
    /\ argStep = SortStep(<<"a">>, <<"desc">>)
    /\ Len(argData.rows) = 2
    /\ argData.rows[1] # argData.rows[2]
    /\ ret.newData.rows = <<argData.rows[2], argData.rows[1]>>

\* a cell that fill_na fills: null, undefined (also an absent key) or ''
IsMissing(value) == value \in {Null, Undefined, Str("")}

\* v parses as a finite number: v is a number other than NaN, or a string
\* other than '' that Number reads as one
ParsesAsFinite(v) == v.t \in {"number", "string"} /\ v # Str("") /\ ~IsNaN(ToNumber(v))

\* C28: on a dataset D that has the fill column, applyStep(D, fill_na(column, v))
\* has D's headers and D's number of rows; in row i the fill column holds v (the
\* number v denotes when v parses as a finite number) where D's row i holds
\* null, undefined or '', and D's value otherwise; every other cell is D's;
\* applying the step to the result gives the result.
C28_FillNA ==
    (/\ pc = "applyStepTwice"
     /\ argStep.op = "fill_na"
     /\ arrIncludes(argData.headers, argStep.params.fill_column)) =>
        LET column == argStep.params.fill_column
            v == argStep.params.fill_value
            filled == IF ParsesAsFinite(v) THEN ToNumber(v) ELSE v
            rows == ret.newData.rows
        IN /\ ret.newData.headers = argData.headers
           /\ Len(rows) = Len(argData.rows)
           /\ \A i \in 1..Len(rows) :
                 /\ Get(rows[i], column) =
                      (IF IsMissing(Get(argData.rows[i], column)) THEN filled
                       ELSE Get(argData.rows[i], column))
                 /\ \A k \in (Keys(rows[i]) \cup Keys(argData.rows[i])) \ {column} :
                       Get(rows[i], k) = Get(argData.rows[i], k)
           /\ ret.again = ret.newData

\* the comparison of two numbers that the condition denotes
NumericCompare(condition, x, y) ==
    CASE condition = "equals" -> x = y
      [] condition = "not_equals" -> x # y
      [] condition = "gt" -> x > y
      [] condition = "lt" -> x < y
      [] condition = "gte" -> x >= y
      [] condition = "lte" -> x <= y

\* C29: for a filter with equals, not_equals, gt, lt, gte or lte and an operand
\* that parses as a finite number, a row whose cell parses as a finite number
\* (stored as a number or as a string) is kept if and only if the cell's number
\* compares so with the operand's number; and when every cell of the column
\* parses as a finite number, the preview's rowsRemoved is the number of rows
\* whose comparison fails.
C29_NumericComparison ==
    (/\ pc \in {"applyStep", "previewStep"}
     /\ argStep.op = "filter"
     /\ arrIncludes(argData.headers, argStep.params.column)
     /\ argStep.params.condition \in {"equals", "not_equals", "gt", "lt", "gte", "lte"}
     /\ ParsesAsFinite(argStep.params.value)) =>
        LET column == argStep.params.column
            Passes(row) == NumericCompare(argStep.params.condition,
                                          ToNumber(Get(row, column)).n,
                                          ToNumber(argStep.params.value).n)
            numeric == {i \in 1..Len(argData.rows) :
                           ParsesAsFinite(Get(argData.rows[i], column))}
        IN /\ pc = "applyStep" =>
                 \A i \in numeric :
                    Passes(argData.rows[i]) <=> arrIncludes(ret.newData.rows, argData.rows[i])
           /\ (pc = "previewStep" /\ numeric = 1..Len(argData.rows)) =>
                 ret.preview.diff.rowsRemoved =
                     Cardinality({i \in numeric : ~Passes(argData.rows[i])})

\* C35: no step adds a row: applyStep(D, S) has at most as many rows as D,
\* and exactly as many for remove_column, rename_column, fill_na and sort;
\* every preview reports rowsAdded = 0 and has no row tagged added.
C35_NoStepAddsRows ==
    /\ pc = "applyStep" =>
          /\ Len(ret.newData.rows) <= Len(argData.rows)
          /\ argStep.op \in {"remove_column", "rename_column", "fill_na", "sort"}
                => Len(ret.newData.rows) = Len(argData.rows)
    /\ pc = "previewStep" =>
          /\ ret.preview.diff.rowsAdded = 0
          /\ Len(Tagged(ret.preview.sample, "added")) = 0

\* the preview of a filter that drops rows of a dataset of MaxRows rows
C35_Witness ==
    /\ pc = "previewStep"
    /\ argStep.op = "filter"
    /\ Len(argData.rows) = MaxRows
    /\ ret.preview.diff.rowsRemoved > 0
    /\ ret.preview.diff.rowsAdded = 0

\* C36: a preview that reports rowsRemoved > 0 has in its sample at least one
\* row tagged removed and no row tagged unmodified.
C36_RemovedRowsSampled ==
    (pc = "previewStep" /\ ret.preview.diff.rowsRemoved > 0) =>
        /\ Len(Tagged(ret.preview.sample, "removed")) >= 1
        /\ Len(Tagged(ret.preview.sample, "unmodified")) = 0

\* C37: dedupe drops a row only if an earlier row of the dataset has the same
\* values on every key column: every row without such an earlier row is kept,
\* and as many rows are kept as there are different key tuples.
C37_DedupeDropsOnlyDuplicates ==
    (pc = "applyStep" /\ argStep.op = "dedupe") =>
        LET K == argStep.params.keys
            rows == argData.rows
            firsts == {i \in 1..Len(rows) :
                          \A j \in 1..(i - 1) : KeyTuple(rows[j], K) # KeyTuple(rows[i], K)}
        IN /\ Len(ret.newData.rows) = Cardinality(firsts)
           /\ \A i \in firsts : Count(ret.newData.rows, rows[i]) >= 1

(***************************************************************************)
(* Properties of the type detector (checked under SpecTypes).              *)
(***************************************************************************)

\* C24: the types inferColumnTypes returns for a row list of SampleLimit rows
\* or more are the types it returns for every row list that has the same first
\* SampleLimit rows, whatever rows follow them.
C24_SampleOnly ==
    (pc = "inferColumnTypes" /\ Len(argData.rows) >= SampleLimit) =>
        \A late \in LateRows :
            inferColumnTypes(SubSeq(argData.rows, 1, SampleLimit) \o late,
                             argData.headers, ret.parser) = ret.types

\* a column of numbers in the sample and a text in the row behind the sample
C24_Witness ==
    /\ pc = "inferColumnTypes"
    /\ Len(argData.rows) = SampleLimit + 1
    /\ Get(argData.rows[1], "a") = Num(1)
    /\ Get(argData.rows[SampleLimit + 1], "a") = Str("x")
    /\ Get(ret.types, "a") = "number"

\* a value that type inference ignores: null, undefined, '' or white space
IsEmptyValue(value) == value \in {Null, Undefined} \/ trim(String(value)) = ""

\* a string YYYY-M-D or YYYY/M/D that names a day of the calendar
IsCalendarDate(value) ==
    /\ value.t = "string"
    /\ \E monthLen \in {1, 2} :
          /\ dateMatchLen(value.s, monthLen) = Len(value.s)
          /\ LET year == StrToNat(SubSeq(value.s, 1, 4))
                 month == StrToNat(SubSeq(value.s, 6, 5 + monthLen))
                 day == StrToNat(SubSeq(value.s, 7 + monthLen, Len(value.s)))
             IN month \in 1..12 /\ day \in 1..DaysInMonth(year, month)

\* the type the claim gives to a column with these sampled values
ClaimedType(values) ==
    LET remaining == {value \in values : ~IsEmptyValue(value)}
    IN IF remaining = {} THEN "string"
       ELSE IF \A value \in remaining : toLowerCase(String(value)) \in {"true", "false"}
            THEN "boolean"
       ELSE IF \A value \in remaining : ParsesAsFinite(value) THEN "number"
       ELSE IF \A value \in remaining : IsCalendarDate(value) THEN "date"
       ELSE "string"

\* C25: the type of a header is string when the sample has no value other
\* than null, undefined, '' and white space, else boolean when every other
\* value is true or false in any case, else number when every other value is
\* a finite numeral, else date when every other value is a valid date
\* YYYY-M-D, else string; and with one more empty value in a sample that has
\* room for it the type is the same.
C25_TypeOfColumn ==
    pc = "inferColumnTypes" =>
        LET rows == argData.rows
            sampleSize == Min(SampleLimit, Len(rows))
            sampled == {Get(rows[i], "a") : i \in 1..sampleSize}
        IN /\ Get(ret.types, "a") = ClaimedType(sampled)
           /\ (Len(rows) < SampleLimit /\ \E value \in sampled : ~IsEmptyValue(value)) =>
                 \A empty \in {Null, Undefined, Str(""), Str(" ")} :
                    Get(inferColumnTypes(<<MkRow(empty, Undefined)>> \o rows,
                                         argData.headers, ret.parser), "a")
                        = Get(ret.types, "a")

(***************************************************************************)
(* Properties of the session (checked under Spec).                         *)
(***************************************************************************)

\* no file is being parsed and the history starts with the snapshot that the
\* complete callback of Papa.parse pushed for a loaded file
FileLoaded ==
    /\ pendingParse = <<>>
    /\ history # <<>>
    /\ history[1] \in {[data |-> file, steps |-> <<>>] : file \in Files}

\* C2: after a file has been loaded, every state reached by commands,
\* translator responses, Apply, Cancel and Undo has one history entry more
\* than it has committed steps.
C2_HistoryLength == FileLoaded => Len(history) = Len(steps) + 1

\* applyStep applied to data for each step of stepList in order
RECURSIVE Replay(_, _)
Replay(data, stepList) ==
    IF Len(stepList) = 0 THEN data
    ELSE Replay(applyStep(data, Head(stepList)), Tail(stepList))

\* C3: after any sequence of commits and undos on a loaded file, entry i of
\* the history holds the first i - 1 committed steps and the dataset that
\* replaying them on the loaded dataset gives, and replaying the step list
\* on the loaded dataset gives the current dataset.
C3_HistoryReplays ==
    FileLoaded =>
        /\ \A i \in 1..Len(history) :
              /\ i - 1 <= Len(steps)
              /\ history[i].steps = SubSeq(steps, 1, i - 1)
              /\ history[i].data = Replay(history[1].data, history[i].steps)
        /\ tableData = Replay(history[1].data, steps)

\* C4: Undo with more than one history entry removes the last entry and
\* makes the new last entry's dataset and steps the current ones, so that
\* Undo right after a commit restores dataset, steps and history to what
\* they were before the commit; Undo with at most one entry changes nothing.
C4_UndoRestoresCommit ==
    [][event' = "executeUndo" =>
         /\ IF Len(history) > 1
            THEN /\ history' = SubSeq(history, 1, Len(history) - 1)
                 /\ tableData' = history'[Len(history')].data
                 /\ steps' = history'[Len(history')].steps
            ELSE UNCHANGED sessionVars
         /\ (preCommit.null = FALSE /\ Len(preCommit.history) >= 1) =>
                /\ tableData' = preCommit.tableData
                /\ steps' = preCommit.steps
                /\ history' = preCommit.history]_vars

\* C5: steps and history grow by a step only in applyChanges, taken while a
\* preview is pending, and by that preview's step, with the current dataset
\* replaced by the step's result; the arrival of the translator's step and
\* the computation of its preview change neither dataset, steps nor history.
C5_CommitOnlyOnApply ==
    [][/\ (Len(steps') > Len(steps) \/ (Len(history) >= 1 /\ Len(history') > Len(history))) =>
              /\ event' = "applyChanges"
              /\ previewData.null = FALSE
              /\ steps' = Append(steps, previewData.step)
              /\ tableData' = applyStep(tableData, previewData.step)
              /\ history' = Append(history, [data |-> tableData', steps |-> steps'])
       /\ event' = "parseCommandResolved" => UNCHANGED <<tableData, steps, history>>]_vars

\* a previewed step was committed and changed the dataset
C5_Witness ==
    /\ event = "applyChanges"
    /\ Len(history) >= 2
    /\ tableData # history[1].data
    /\ previewData = NoPreview

\* C6: a command that is sent, previewed and cancelled changes neither the
\* dataset, the steps, the history nor the conditional-format rules: none of
\* handleSendMessage, the arrival of its preview and cancelChanges changes
\* them, and cancelChanges clears the preview and sets the status to idle.
C6_CancelHasNoEffect ==
    [][/\ event' = "cancelChanges" =>
              /\ UNCHANGED <<tableData, steps, history, conditionalFormats>>
              /\ previewData' = NoPreview
              /\ agentStatus' = "idle"
       /\ event' = "handleSendMessage" =>
              UNCHANGED <<tableData, steps, history, conditionalFormats>>
       /\ (event' = "parseCommandResolved" /\ agentStatus' = "awaiting_confirmation") =>
              UNCHANGED <<tableData, steps, history, conditionalFormats>>]_vars

\* a preview on a dataset with a committed step and a rule was cancelled
C6_Witness ==
    /\ event = "cancelChanges"
    /\ Len(history) >= 2
    /\ Len(conditionalFormats) >= 1
    /\ previewData = NoPreview
    /\ agentStatus = "idle"

\* C7: a translator call starts only from status idle with a dataset loaded,
\* and it leaves no preview pending; a command sent in any other status, or
\* with no dataset, changes no state and starts no call.
C7_CommandsGated ==
    [][/\ Len(pendingCommands') > Len(pendingCommands) =>
              /\ agentStatus = "idle"
              /\ Len(tableData.headers) > 0
              /\ previewData' = NoPreview
       /\ (event' = "handleSendMessage"
           /\ (agentStatus # "idle" \/ Len(tableData.headers) = 0)) =>
              UNCHANGED sessionVars]_vars

\* a command was sent while a preview awaited confirmation and was ignored
C7_Witness ==
    /\ event = "handleSendMessage"
    /\ agentStatus = "awaiting_confirmation"
    /\ previewData.null = FALSE
    /\ pendingCommands = <<>>

\* C18: when the translator's answer is a conditional_format step, the
\* handler appends one rule with the step's column, condition, value and
\* color to the rules, leaves the preview, the dataset, the steps and the
\* history as they are, and sets the status to idle.
C18_FormatIntercepted ==
    [][(event' = "parseCommandResolved" /\ parseCommand(resolved').op = "conditional_format") =>
          LET p == parseCommand(resolved').params
              n == Len(conditionalFormats)
          IN /\ Len(conditionalFormats') = n + 1
             /\ SubSeq(conditionalFormats', 1, n) = conditionalFormats
             /\ conditionalFormats'[n + 1].column = p.column
             /\ conditionalFormats'[n + 1].condition = p.condition
             /\ conditionalFormats'[n + 1].value = p.value
             /\ conditionalFormats'[n + 1].color = p.color
             /\ previewData' = previewData
             /\ UNCHANGED <<tableData, steps, history>>
             /\ agentStatus' = "idle"]_vars

\* a conditional_format answer arrived on a dataset with a committed step
C18_Witness ==
    /\ event = "parseCommandResolved"
    /\ parseCommand(resolved).op = "conditional_format"
    /\ Len(conditionalFormats) = 1
    /\ Len(history) = 2
    /\ previewData = NoPreview
    /\ agentStatus = "idle"

\* C31: when Apply commits the pending step, the preview on display is the
\* preview of that step on the dataset the step is applied to, and the change
\* of the row count that the commit makes is the diff the preview reported.
C31_CommitMatchesPreview ==
    [][event' = "applyChanges" =>
          LET before == Len(tableData.rows)
              after == Len(tableData'.rows)
          IN /\ previewStep(tableData, previewData.step)
                   = [diff |-> previewData.diff, sample |-> previewData.sample]
             /\ previewData.diff.rowsRemoved = max(0, before - after)
             /\ previewData.diff.rowsAdded = max(0, after - before)]_vars

\* C32: at most one translator request is outstanding at any time.
C32_OneTranslatorRequest == Len(pendingCommands) <= 1

\* C33: whenever the history is not empty, the current dataset is the dataset
\* of the last history entry and the current step list is the step list of
\* the last history entry.
C33_CurrentIsLastEntry ==
    history # <<>> =>
        /\ tableData = history[Len(history)].data
        /\ steps = history[Len(history)].steps

\* C30: in every state the status is awaiting_confirmation exactly when a
\* preview is pending (previewData is not null), so that the card with Apply
\* and Cancel is shown exactly while the session awaits confirmation.
C30_StatusMatchesPreview ==
    (agentStatus = "awaiting_confirmation") <=> (previewData.null = FALSE)

(***************************************************************************)
(* Properties of the committed datasets (checked under SpecCommits).       *)
(***************************************************************************)
KeysWithinHeaders(data) ==
    \A i \in 1..Len(data.rows) : Keys(data.rows[i]) \subseteq Elements(data.headers)

\* C14: when the rows of the loaded dataset have no key outside its headers,
\* the rows of the current dataset and of every history entry have no key
\* outside that dataset's headers, after any commits and undos.
C14_KeysWithinHeaders ==
    KeysWithinHeaders(history[1].data) =>
        /\ KeysWithinHeaders(tableData)
        /\ \A i \in 1..Len(history) : KeysWithinHeaders(history[i].data)

\* a rename and one more step were committed and the rows still have keys
C14_Witness ==
    /\ event = "applyChanges"
    /\ Len(steps) = 2
    /\ steps[1].op = "rename_column"
    /\ steps[1].params.old_name # steps[1].params.new_name
    /\ tableData.rows # <<>>
    /\ \A i \in 1..Len(tableData.rows) : Keys(tableData.rows[i]) # {}

PairwiseDistinct(arr) ==
    \A i, j \in 1..Len(arr) : i # j => arr[i] # arr[j]

\* C15: when the headers of the loaded dataset are pairwise distinct, so are
\* the headers of the current dataset after any commits and undos.
C15_HeadersDistinct ==
    PairwiseDistinct(history[1].data.headers) => PairwiseDistinct(tableData.headers)

\* C16: no step changes the type of a column the schema keeps; a commit of
\* rename_column(old, new) leaves an entry for new with old's type and none
\* for old, a commit of remove_column(c) leaves no entry for c, and after
\* every commit the schema's keys are the current headers.
C16_SchemaFollowsCommits ==
    [][/\ \A k \in Keys(columnSchema) \cap Keys(columnSchema') :
              Get(columnSchema', k).type = Get(columnSchema, k).type
       /\ event' = "applyChanges" =>
              LET step == previewData.step
                  p == step.params
              IN /\ (step.op = "rename_column" /\ arrIncludes(tableData.headers, p.old_name)) =>
                        /\ HasKey(columnSchema', p.new_name)
                        /\ Get(columnSchema', p.new_name).type
                               = Get(columnSchema, p.old_name).type
                        /\ p.old_name # p.new_name => ~HasKey(columnSchema', p.old_name)
                 /\ step.op = "remove_column" => ~HasKey(columnSchema', p.column_to_remove)
                 /\ Keys(columnSchema') = Elements(tableData'.headers)]_vars

\* C20: a translator failure (the service rejects, the answer is no JSON,
\* the operation is none of Operation) reaches the handler as an error step
\* with the failure's message, not as an exception; and on every error step
\* the handler appends one agent message, leaves the preview, the dataset,
\* the steps and the history as they are, and sets the status to idle.
C20_FailureIsErrorStep ==
    [][event' = "parseCommandResolved" =>
          LET step == parseCommand(resolved')
          IN /\ IsFailure(resolved') =>
                    /\ step.op = "error"
                    /\ "params" \in DOMAIN step
                    /\ messagesUpdate'
                          = AppendMessage(Message("agent", step.params.message, Undefined))
             /\ step.op = "error" =>
                    /\ messagesUpdate'.op = "append"
                    /\ messagesUpdate'.message.sender = "agent"
                    /\ previewData' = previewData
                    /\ previewData'.null
                    /\ UNCHANGED <<tableData, steps, history>>
                    /\ agentStatus' = "idle"]_vars

\* an answer that is no JSON arrived on a dataset with a committed step
C20_Witness ==
    /\ event = "parseCommandResolved"
    /\ resolved = UnparsableResponse
    /\ messagesUpdate.op = "append"
    /\ Len(history) = 2
    /\ previewData = NoPreview
    /\ agentStatus = "idle"

(***************************************************************************)
(* Properties of the column descriptions (checked under SpecDescribe).     *)
(***************************************************************************)

\* C21: when the column descriptions arrive, a description for a name that is
\* no header of the current dataset any more (the column was removed or
\* renamed by a committed step) is dropped, the schema gets or changes no
\* entry for that name; and the arrival changes no column's type, nor the
\* dataset, the steps or the history.
C21_StaleDescriptionDropped ==
    [][event' = "descriptionsResolved" =>
          /\ \A name \in resolved'.described \ Elements(tableData.headers) :
                /\ HasKey(columnSchema', name) = HasKey(columnSchema, name)
                /\ Get(columnSchema', name) = Get(columnSchema, name)
          /\ Keys(columnSchema') = Keys(columnSchema)
          /\ \A name \in Keys(columnSchema) :
                Get(columnSchema', name).type = Get(columnSchema, name).type
          /\ UNCHANGED <<tableData, steps, history>>]_vars

\* C34: a description response for the call that an earlier file's load made
\* leaves the schema of the file loaded later as it is.
C34_DescriptionsOfEarlierFile ==
    [][(event' = "descriptionsResolved" /\ history # <<>>
            /\ resolved'.request # history[1].data)
          => columnSchema' = columnSchema]_vars

(***************************************************************************)
(* Properties of the conditional-format rules (checked under SpecFormats). *)
(***************************************************************************)

Displayed(engine, parser) ==
    sortedTableData(tableData, sortConfig, columnSchema, engine, parser).sorted.rows

\* C22: while a display sort is active, in the displayed order no row whose
\* value on the sort key is null or undefined stands before a row whose value
\* on the sort key is present, in ascending and in descending direction.
C22_MissingValuesLast ==
    ~sortConfig.null =>
        \A engine \in SortEngines, parser \in DateParsers :
            LET rows == Displayed(engine, parser)
            IN \A i \in 1..Len(rows), j \in 1..Len(rows) :
                  (i < j /\ IsNullish(Get(rows[i], sortConfig.key)))
                      => IsNullish(Get(rows[j], sortConfig.key))

\* a descending display sort on column b of a dataset whose first row has
\* null in b and whose other rows have a value: the row is shown last
C22_Witness ==
    /\ sortConfig = [null |-> FALSE, key |-> "b", direction |-> "desc"]
    /\ Len(tableData.rows) = 3
    /\ Get(tableData.rows[1], "b") = Null
    /\ ~IsNullish(Get(tableData.rows[2], "b"))
    /\ \A engine \in SortEngines, parser \in DateParsers :
          Get(Displayed(engine, parser)[3], "b") = Null

\* C40: whenever the headers of the dataset do not contain the key of the
\* active sort, the sort is eventually reset to none; a click on the header of
\* the ascending sort's column makes the sort descending, a click on the header
\* of the descending sort's column resets the sort, and a click on any other
\* header makes the sort ascending on that column.
C40_SortKeyEventuallyExists ==
    /\ SortKeyMissing ~> sortConfig.null
    /\ [][event' = "handleSort" =>
             LET key == resolved'.key
             IN sortConfig' =
                  IF ~sortConfig.null /\ sortConfig.key = key /\ sortConfig.direction = "asc"
                  THEN [null |-> FALSE, key |-> key, direction |-> "desc"]
                  ELSE IF ~sortConfig.null /\ sortConfig.key = key THEN NoSort
                  ELSE [null |-> FALSE, key |-> key, direction |-> "asc"]]_vars

\* the effect has reset a sort whose column a committed step had removed or
\* renamed
C40_Witness ==
    /\ event = "sortConfigEffect"
    /\ sortConfig.null
    /\ Len(steps) > 0

Sign(n) == IF n > 0 THEN 1 ELSE IF n < 0 THEN -1 ELSE 0

\* C38: the comparator of the display sort is a consistent ordering of the
\* dataset's rows: compare(a, b) and compare(b, a) have opposite signs, and
\* compare(a, a) is 0, for the active key, direction and column type.
C38_ComparatorConsistent ==
    ~sortConfig.null =>
        \A a, b \in Elements(tableData.rows), parser \in DateParsers :
            Sign(displayCompare(a, b, sortConfig, columnSchema, parser))
                = -Sign(displayCompare(b, a, sortConfig, columnSchema, parser))

\* C23: a click on a column header and the effect that resets the sort leave
\* the dataset, the steps and the history as they are; in every state the
\* displayed rows are a permutation of the dataset's rows, and computing them
\* leaves the dataset as it is.
C23_DisplaySortIsReadOnly ==
    /\ [][event' \in {"handleSort", "sortConfigEffect"} =>
             UNCHANGED <<tableData, steps, history>>]_vars
    /\ [](\A engine \in SortEngines, parser \in DateParsers :
             LET out == sortedTableData(tableData, sortConfig, columnSchema, engine, parser)
             IN /\ IsPermutation(out.sorted.rows, tableData.rows)
                /\ out.tableData = tableData)

\* an ascending display sort on column a shows the rows of a dataset that a
\* committed step has sorted descending in another order than the dataset's
C23_Witness ==
    /\ sortConfig = [null |-> FALSE, key |-> "a", direction |-> "asc"]
    /\ event = "handleSort"
    /\ Len(steps) = 1
    /\ \A engine \in SortEngines, parser \in DateParsers :
          Displayed(engine, parser) # tableData.rows

====
